---- MODULE Spec2Model ----
(***************************************************************************)
(* A state-machine model of the cgq effect interpreter: the Value model,   *)
(* the two predicate evaluators, the GameState path resolver, the          *)
(* Collection / CollectionManager pair and the EffectExecutor.            *)
(*                                                                         *)
(* The executor is a recursive tree walker.  It is modelled small-step:    *)
(* `stack` is the Rust call stack of the executor (one frame per operation *)
(* list, While, ForEach or EmitEvent that is in progress), and one action  *)
(* is one handler of execute_operation.  An error (`?`) unwinds the whole  *)
(* stack in the step that raises it, as no Rust frame catches it.          *)
(***************************************************************************)
EXTENDS Integers, Sequences, FiniteSets, TLC

VARIABLES
    world,            \* the bevy World: GameTimer, Score, CardManager resources
    gs_vars,          \* GameState.variables
    collections,      \* CollectionManager.collections (path -> items)
    ctx,              \* EffectContext.variables
    event_listeners,  \* EffectExecutor.event_listeners (event -> bodies)
    stack,            \* the executor's call stack, innermost frame last
    result,           \* what the last execute_effect call returned
    call,             \* the call being served: its effect and entry state
    log,              \* observation: what the executor did during the call
    calls             \* number of execute_effect calls made so far

vars == <<world, gs_vars, collections, ctx, event_listeners, stack, result,
          call, log, calls>>

(***************************************************************************)
(* Value (effect.rs).  A Float carries its value in units of 1/FloatDen.   *)
(***************************************************************************)
FloatDen == 2

VInt(n) == [t |-> "Int", v |-> n]
VFloat(n) == [t |-> "Float", v |-> n]
VBool(b) == [t |-> "Bool", v |-> b]
VStr(s) == [t |-> "String", v |-> s]
VArray(s) == [t |-> "Array", v |-> s]
VObject(f) == [t |-> "Object", v |-> f]
VNull == [t |-> "Null"]

None == [some |-> FALSE]
Some(x) == [some |-> TRUE, v |-> x]

\* Rust `as i32` on a float truncates toward zero.
TruncDiv(a, b) == IF a >= 0 THEN a \div b ELSE -((-a) \div b)

as_int(val) ==
    CASE val.t = "Int" -> Some(val.v)
      [] val.t = "Float" -> Some(TruncDiv(val.v, FloatDen))
      [] OTHER -> None

as_bool(val) == IF val.t = "Bool" THEN Some(val.v) ELSE None

Max(a, b) == IF a >= b THEN a ELSE b
Min(a, b) == IF a <= b THEN a ELSE b

\* HashMap::insert
Put(f, k, v) == [x \in DOMAIN f \cup {k} |-> IF x = k THEN v ELSE f[x]]
EmptyMap == [x \in {} |-> 0]

(***************************************************************************)
(* Strings.  TLA+ strings are atomic, so the three string functions the    *)
(* code uses (split('.'), strip_prefix('$'), format!("event.{}")) are      *)
(* tabulated over the strings the inputs are built from.                   *)
(***************************************************************************)
Split(path) ==
    CASE path = "timer.remaining" -> <<"timer", "remaining">>
      [] path = "timer.elapsed" -> <<"timer", "elapsed">>
      [] path = "timer.percent_remaining" -> <<"timer", "percent_remaining">>
      [] path = "timer.paused" -> <<"timer", "paused">>
      [] path = "score.current" -> <<"score", "current">>
      [] path = "score.passing_grade" -> <<"score", "passing_grade">>
      [] path = "question.points" -> <<"question", "points">>
      [] path = "cards.slots.max" -> <<"cards", "slots", "max">>
      [] path = "cards.slots.occupied" -> <<"cards", "slots", "occupied">>
      [] path = "var.x" -> <<"var", "x">>
      [] path = "var.flag" -> <<"var", "flag">>
      [] path = "var.counter" -> <<"var", "counter">>
      [] path = "user.name" -> <<"user", "name">>
      [] path = "stats.value" -> <<"stats", "value">>
      [] path = "bogus.path" -> <<"bogus", "path">>
      [] path = "var.var.x" -> <<"var", "var", "x">>
      [] path = "value.x" -> <<"value", "x">>
      [] path = "stats.missing" -> <<"stats", "missing">>
      [] OTHER -> <<path>>

StripDollar(field) ==
    CASE field = "$x" -> Some("x")
      [] field = "$counter" -> Some("counter")
      [] field = "$item" -> Some("item")
      [] field = "$index" -> Some("index")
      [] field = "$removed" -> Some("removed")
      [] field = "$event.points" -> Some("event.points")
      [] OTHER -> None

EventKey(key) ==
    CASE key = "points" -> "event.points"
      [] key = "bonus" -> "event.bonus"
      [] OTHER -> "event.other"

(***************************************************************************)
(* GameState (game_state.rs).  The World holds the GameTimer, Score and    *)
(* CardManager resources; a resource may be absent.  The timer's duration  *)
(* and elapsed time are counted in ticks of 1/TicksPerSec second, and      *)
(* Duration::as_secs drops the fraction.                                   *)
(***************************************************************************)
TicksPerSec == 2

DefaultMaxSlots == 10

Remaining(w) == w.duration - w.elapsed

GameState_get(path, gsv, w) ==
    LET parts == Split(path) IN
    CASE parts = <<"timer", "remaining">> ->
            IF w.has_timer THEN Some(VInt(Remaining(w) \div TicksPerSec)) ELSE None
      [] parts = <<"timer", "elapsed">> ->
            IF w.has_timer THEN Some(VInt(w.elapsed \div TicksPerSec)) ELSE None
      [] parts = <<"timer", "percent_remaining">> ->
            IF w.has_timer
            THEN IF w.duration > 0
                 THEN Some(VFloat((Remaining(w) * 100 * FloatDen) \div w.duration))
                 ELSE Some(VFloat(0))
            ELSE None
      [] parts = <<"timer", "paused">> ->
            IF w.has_timer THEN Some(VBool(w.paused)) ELSE None
      [] parts = <<"score", "current">> ->
            IF w.has_score THEN Some(VInt(w.current)) ELSE None
      [] parts = <<"score", "passing_grade">> ->
            IF w.has_score THEN Some(VInt(w.passing_grade)) ELSE None
      [] parts = <<"question", "points">> -> None
      [] parts = <<"cards", "slots", "max">> -> Some(VInt(DefaultMaxSlots))
      [] parts = <<"cards", "slots", "occupied">> ->
            IF w.has_cards THEN Some(VInt(w.deployed)) ELSE None
      [] Len(parts) = 2 /\ parts[1] = "var" ->
            IF parts[2] \in DOMAIN gsv THEN Some(gsv[parts[2]]) ELSE None
      [] OTHER -> None

\* The outcome of a GameState mutator: the bool it returns and the state it leaves.
SetResult(ok, gsv, w) == [ok |-> ok, gs |-> gsv, w |-> w]

\* Mutant of GameState_set: timer.remaining is clamped with `.max(-1)`.
GameState_set_clamped_at_minus_one(path, value, gsv, w) ==
    LET parts == Split(path) IN
    CASE parts = <<"timer", "remaining">> ->
            IF as_int(value).some /\ w.has_timer
            THEN SetResult(TRUE, gsv,
                    [w EXCEPT !.duration =
                        Max(as_int(value).v, -1) * TicksPerSec + w.elapsed])
            ELSE SetResult(FALSE, gsv, w)
      [] parts = <<"timer", "paused">> ->
            IF as_bool(value).some /\ w.has_timer
            THEN SetResult(TRUE, gsv,
                    [w EXCEPT !.paused = as_bool(value).v,
                              !.timer_paused = as_bool(value).v])
            ELSE SetResult(FALSE, gsv, w)
      [] parts = <<"score", "current">> ->
            IF as_int(value).some /\ w.has_score
            THEN SetResult(TRUE, gsv, [w EXCEPT !.current = as_int(value).v])
            ELSE SetResult(FALSE, gsv, w)
      [] parts = <<"score", "passing_grade">> ->
            IF as_int(value).some /\ w.has_score
            THEN SetResult(TRUE, gsv, [w EXCEPT !.passing_grade = as_int(value).v])
            ELSE SetResult(FALSE, gsv, w)
      [] Len(parts) = 2 /\ parts[1] = "var" ->
            SetResult(TRUE, Put(gsv, parts[2], value), w)
      [] OTHER -> SetResult(FALSE, gsv, w)

GameState_set(path, value, gsv, w) ==
    LET parts == Split(path) IN
    CASE parts = <<"timer", "remaining">> ->
            IF as_int(value).some /\ w.has_timer
            THEN SetResult(TRUE, gsv,
                    [w EXCEPT !.duration =
                        Max(as_int(value).v, 0) * TicksPerSec + w.elapsed])
            ELSE SetResult(FALSE, gsv, w)
      [] parts = <<"timer", "paused">> ->
            IF as_bool(value).some /\ w.has_timer
            THEN SetResult(TRUE, gsv,
                    [w EXCEPT !.paused = as_bool(value).v,
                              !.timer_paused = as_bool(value).v])
            ELSE SetResult(FALSE, gsv, w)
      [] parts = <<"score", "current">> ->
            IF as_int(value).some /\ w.has_score
            THEN SetResult(TRUE, gsv, [w EXCEPT !.current = as_int(value).v])
            ELSE SetResult(FALSE, gsv, w)
      [] parts = <<"score", "passing_grade">> ->
            IF as_int(value).some /\ w.has_score
            THEN SetResult(TRUE, gsv, [w EXCEPT !.passing_grade = as_int(value).v])
            ELSE SetResult(FALSE, gsv, w)
      [] Len(parts) = 2 /\ parts[1] = "var" ->
            SetResult(TRUE, Put(gsv, parts[2], value), w)
      [] OTHER -> SetResult(FALSE, gsv, w)

\* Mutant of VarKey: the accessors use the name itself as the key.
VarKeyBare(name) == name

\* `format!("var.{}", name)`, over the names of the inputs
VarKey(name) ==
    CASE name = "x" -> "var.x"
      [] name = "counter" -> "var.counter"
      [] name = "flag" -> "var.flag"
      [] OTHER -> "var.other"

\* GameState::set_variable, get_variable and clear_variables
GameState_set_variable(name, value, gsv) == Put(gsv, VarKey(name), value)
GameState_get_variable(name, gsv) ==
    IF VarKey(name) \in DOMAIN gsv THEN Some(gsv[VarKey(name)]) ELSE None
GameState_clear_variables(gsv) == EmptyMap

\* i32 arithmetic.  `+` and unary `-` on i32 panic on overflow in a build
\* with overflow checks (the debug profile) and wrap around in a build
\* without them (the release profile).
MaxI32 == 2147483647
MinI32 == -MaxI32 - 1

AddOverflows(a, b) == (b > 0 /\ a > MaxI32 - b) \/ (b < 0 /\ a < MinI32 - b)
NegOverflows(a) == a = MinI32

\* the two's-complement results, computed without leaving the i32 range
wrapping_add(a, b) ==
    IF b > 0 /\ a > MaxI32 - b THEN (a + MinI32) + (b + MinI32)
    ELSE IF b < 0 /\ a < MinI32 - b THEN (a - MinI32) + (b - MinI32)
    ELSE a + b
wrapping_neg(a) == IF a = MinI32 THEN MinI32 ELSE -a

\* `Value::Int(current_val + amount)` where current_val is current.as_int()
AddedValue(current, amount) == VInt(wrapping_add(as_int(current).v, amount))

\* GameState::add where `+` does not panic
GameState_add(path, amount, gsv, w) ==
    LET current == GameState_get(path, gsv, w) IN
    IF current.some /\ as_int(current.v).some
    THEN GameState_set(path, AddedValue(current.v, amount), gsv, w)
    ELSE SetResult(FALSE, gsv, w)

\* `current_val + amount` overflows
add_overflows(path, amount, gsv, w) ==
    LET current == GameState_get(path, gsv, w) IN
    /\ current.some /\ as_int(current.v).some
    /\ AddOverflows(as_int(current.v).v, amount)

\* GameState::subtract where neither `-amount` nor `+` panics
GameState_subtract(path, amount, gsv, w) ==
    GameState_add(path, wrapping_neg(amount), gsv, w)

\* `-amount` overflows, or the addition inside add does
subtract_overflows(path, amount, gsv, w) ==
    NegOverflows(amount) \/ add_overflows(path, wrapping_neg(amount), gsv, w)

\* `factor` is in units of 1/FloatDen, like a Float's value.
GameState_multiply(path, factor, gsv, w) ==
    LET current == GameState_get(path, gsv, w) IN
    IF ~current.some THEN SetResult(FALSE, gsv, w)
    ELSE CASE current.v.t = "Int" ->
                GameState_set(path, VInt(TruncDiv(current.v.v * factor, FloatDen)), gsv, w)
           [] current.v.t = "Float" ->
                GameState_set(path, VFloat(TruncDiv(current.v.v * factor, FloatDen)), gsv, w)
           [] OTHER -> SetResult(FALSE, gsv, w)

GameState_set_flag(flag, value, gsv, w) == GameState_set(flag, VBool(value), gsv, w)

\* Mutant of GameState_toggle_flag: the flag is raised, not inverted.
GameState_toggle_flag_raises(flag, gsv, w) ==
    LET current == GameState_get(flag, gsv, w) IN
    IF current.some /\ as_bool(current.v).some
    THEN GameState_set_flag(flag, TRUE, gsv, w)
    ELSE SetResult(FALSE, gsv, w)

GameState_toggle_flag(flag, gsv, w) ==
    LET current == GameState_get(flag, gsv, w) IN
    IF current.some /\ as_bool(current.v).some
    THEN GameState_set_flag(flag, ~as_bool(current.v).v, gsv, w)
    ELSE SetResult(FALSE, gsv, w)

(***************************************************************************)
(* EffectError and Result (effect_executor/mod.rs).                        *)
(***************************************************************************)
InvalidPath(p) == [kind |-> "InvalidPath", arg |-> p]
InvalidValue(m) == [kind |-> "InvalidValue", arg |-> m]
OperationError(m) == [kind |-> "OperationError", arg |-> m]
MaxIterationsReached == [kind |-> "MaxIterationsReached"]

Ok(v) == [ok |-> TRUE, v |-> v]
Err(e) == [ok |-> FALSE, err |-> e]

(***************************************************************************)
(* The state-level predicate evaluator (effect_executor/mod.rs).           *)
(***************************************************************************)
\* Mutant of resolve_value: an unbound `$name` resolves to Null.
resolve_value_unbound_null(field, c, gsv, w) ==
    LET var_name == StripDollar(field) IN
    IF var_name.some
    THEN IF var_name.v \in DOMAIN c THEN Ok(c[var_name.v]) ELSE Ok(VNull)
    ELSE LET got == GameState_get(field, gsv, w) IN
         IF got.some THEN Ok(got.v) ELSE Err(InvalidPath(field))

resolve_value(field, c, gsv, w) ==
    LET var_name == StripDollar(field) IN
    IF var_name.some /\ var_name.v \in DOMAIN c
    THEN Ok(c[var_name.v])
    ELSE LET got == GameState_get(field, gsv, w) IN
         IF got.some THEN Ok(got.v) ELSE Err(InvalidPath(field))

IsNumber(val) == val.t \in {"Int", "Float"}

\* `as f64` of an Int or a Float, in units of 1/FloatDen.
AsF64(val) == IF val.t = "Int" THEN val.v * FloatDen ELSE val.v

NumOp(op, a, b) ==
    CASE op = "GreaterThan" -> a > b
      [] op = "LessThan" -> a < b
      [] op = "GreaterOrEqual" -> a >= b
      [] op = "LessOrEqual" -> a <= b

\* Mutant of ValueEq: an Int equals the Float of the same number.
ValueEqCoercing(a, b) ==
    IF IsNumber(a) /\ IsNumber(b) THEN AsF64(a) = AsF64(b) ELSE a = b

\* `==` on Value, the derived PartialEq: same variant and same payload
ValueEq(a, b) == a = b

\* Mutant of Executor_compare_values: a non-number makes the comparison false.
Executor_compare_values_lenient(a, b, op) ==
    IF ~IsNumber(a) THEN Ok(FALSE)
    ELSE IF ~IsNumber(b) THEN Ok(FALSE)
    ELSE Ok(NumOp(op, AsF64(a), AsF64(b)))

Executor_compare_values(a, b, op) ==
    IF ~IsNumber(a) THEN Err(InvalidValue("Not a number"))
    ELSE IF ~IsNumber(b) THEN Err(InvalidValue("Not a number"))
    ELSE Ok(NumOp(op, AsF64(a), AsF64(b)))

Comparisons == {"GreaterThan", "LessThan", "GreaterOrEqual", "LessOrEqual"}

\* Mutant of NotYetImplemented: an unimplemented predicate kind is an error.
NotYetImplementedIsError == Err(InvalidValue("not implemented"))

\* the arms of HasTag, IsType, Contains and Expression: warn!(..); Ok(false)
NotYetImplemented == Ok(FALSE)

\* Mutant of Negate: Not of a predicate that failed is true.
NegateLenient(r) == IF r.ok THEN Ok(~r.v) ELSE Ok(TRUE)

\* the Not arm, `Ok(!self.evaluate_predicate(..)?)`, given the inner outcome r
Negate(r) == IF r.ok THEN Ok(~r.v) ELSE r

RECURSIVE evaluate_predicate(_, _, _, _)
RECURSIVE EvalAll(_, _, _, _, _)
RECURSIVE EvalAny(_, _, _, _, _)

\* Mutant of EvalAll: every child is evaluated before the conjunction is formed.
EvalAllEager(preds, i, c, gsv, w) ==
    LET rs == [j \in i..Len(preds) |-> evaluate_predicate(preds[j], c, gsv, w)]
        failed == {j \in i..Len(preds) : ~rs[j].ok}
    IN  IF failed # {}
        THEN rs[CHOOSE j \in failed : \A k \in failed : j <= k]
        ELSE Ok(\A j \in i..Len(preds) : rs[j].v)

\* the `for pred in predicates` loop of And, from index i on
EvalAll(preds, i, c, gsv, w) ==
    IF i > Len(preds) THEN Ok(TRUE)
    ELSE LET r == evaluate_predicate(preds[i], c, gsv, w) IN
         IF ~r.ok THEN r
         ELSE IF ~r.v THEN Ok(FALSE)
         ELSE EvalAll(preds, i + 1, c, gsv, w)

\* the `for pred in predicates` loop of Or, from index i on
EvalAny(preds, i, c, gsv, w) ==
    IF i > Len(preds) THEN Ok(FALSE)
    ELSE LET r == evaluate_predicate(preds[i], c, gsv, w) IN
         IF ~r.ok THEN r
         ELSE IF r.v THEN Ok(TRUE)
         ELSE EvalAny(preds, i + 1, c, gsv, w)

evaluate_predicate(p, c, gsv, w) ==
    CASE p.type = "Equals" ->
            LET current == resolve_value(p.field, c, gsv, w) IN
            IF current.ok THEN Ok(ValueEq(current.v, p.value)) ELSE current
      [] p.type = "NotEquals" ->
            LET current == resolve_value(p.field, c, gsv, w) IN
            IF current.ok THEN Ok(~ValueEq(current.v, p.value)) ELSE current
      [] p.type \in Comparisons ->
            LET current == resolve_value(p.field, c, gsv, w) IN
            IF current.ok THEN Executor_compare_values(current.v, p.value, p.type)
            ELSE current
      [] p.type = "And" -> EvalAll(p.predicates, 1, c, gsv, w)
      [] p.type = "Or" -> EvalAny(p.predicates, 1, c, gsv, w)
      [] p.type = "Not" -> Negate(evaluate_predicate(p.predicate, c, gsv, w))
      [] p.type = "HasTag" -> NotYetImplemented
      [] p.type = "IsType" -> NotYetImplemented
      [] p.type = "Contains" -> NotYetImplemented
      [] p.type = "Expression" -> NotYetImplemented

(***************************************************************************)
(* The item-level predicate evaluator (collections.rs).                    *)
(***************************************************************************)
RECURSIVE WalkParts(_, _, _)
\* the `for part in parts` loop of get_field_value, from index i on
WalkParts(current, parts, i) ==
    IF i > Len(parts) THEN Some(current)
    ELSE IF current.t = "Object"
         THEN IF parts[i] \in DOMAIN current.v
              THEN WalkParts(current.v[parts[i]], parts, i + 1)
              ELSE None
         ELSE None

\* Mutant of get_field_value: a field that cannot be reached reads as Null.
get_field_value_or_null(item, field) ==
    IF item.t = "Object"
    THEN LET found == WalkParts(item, Split(field), 1) IN
         IF found.some THEN found ELSE Some(VNull)
    ELSE Some(VNull)

get_field_value(item, field) ==
    IF item.t = "Object" THEN WalkParts(item, Split(field), 1) ELSE None

Collections_compare_values(a, b, op) ==
    IF ~IsNumber(a) THEN FALSE
    ELSE IF ~IsNumber(b) THEN FALSE
    ELSE NumOp(op, AsF64(a), AsF64(b))

\* str::contains over the strings of the inputs
StrContains(s, search) ==
    \/ search = ""
    \/ s = search
    \/ <<s, search>> \in {<<"hello world", "world">>, <<"hello world", "hello">>,
                          <<"abc", "b">>}

RECURSIVE evaluate_item_predicate(_, _)
evaluate_item_predicate(p, item) ==
    CASE p.type = "Equals" ->
            LET iv == get_field_value(item, p.field) IN
            IF iv.some THEN ValueEq(iv.v, p.value) ELSE FALSE
      [] p.type = "NotEquals" ->
            LET iv == get_field_value(item, p.field) IN
            IF iv.some THEN ~ValueEq(iv.v, p.value) ELSE TRUE
      [] p.type \in Comparisons ->
            LET iv == get_field_value(item, p.field) IN
            IF iv.some THEN Collections_compare_values(iv.v, p.value, p.type) ELSE FALSE
      [] p.type = "HasTag" ->
            LET tags == get_field_value(item, "tags") IN
            IF tags.some /\ tags.v.t = "Array"
            THEN \E i \in 1..Len(tags.v.v) :
                    tags.v.v[i].t = "String" /\ tags.v.v[i].v = p.tag
            ELSE FALSE
      [] p.type = "IsType" ->
            LET ty == get_field_value(item, "type") IN
            IF ty.some /\ ty.v.t = "String" THEN ty.v.v = p.card_type ELSE FALSE
      [] p.type = "Contains" ->
            LET iv == get_field_value(item, p.field) IN
            IF iv.some
            THEN CASE iv.v.t = "Array" ->
                        \E i \in 1..Len(iv.v.v) : ValueEq(iv.v.v[i], p.value)
                   [] iv.v.t = "String" ->
                        IF p.value.t = "String" THEN StrContains(iv.v.v, p.value.v)
                        ELSE FALSE
                   [] OTHER -> FALSE
            ELSE FALSE
      [] p.type = "And" ->
            \A i \in 1..Len(p.predicates) : evaluate_item_predicate(p.predicates[i], item)
      [] p.type = "Or" ->
            \E i \in 1..Len(p.predicates) : evaluate_item_predicate(p.predicates[i], item)
      [] p.type = "Not" -> ~evaluate_item_predicate(p.predicate, item)
      [] p.type = "Expression" -> FALSE

(***************************************************************************)
(* Collection (collections.rs).  A collection is its `items` vector.       *)
(***************************************************************************)
\* Mutant of Collection_filter: retain keeps what the predicate rejects.
Collection_filter_rejected(items, p) ==
    SelectSeq(items, LAMBDA item : ~evaluate_item_predicate(p, item))

\* Mutant of Collection_filter: the evaluator marks the items it accepts.
Collection_filter_marking(items, p) ==
    LET kept == SelectSeq(items, LAMBDA item : evaluate_item_predicate(p, item)) IN
    [i \in 1..Len(kept) |->
        IF kept[i].t = "Object" THEN VObject(Put(kept[i].v, "seen", VBool(TRUE)))
        ELSE kept[i]]

RECURSIVE Collection_filter(_, _)
\* Vec::retain with the item-level predicate p, as execute_filter calls it
Collection_filter(items, p) ==
    IF Len(items) = 0 THEN <<>>
    ELSE (IF evaluate_item_predicate(p, Head(items)) THEN <<Head(items)>> ELSE <<>>)
            \o Collection_filter(Tail(items), p)

\* Vec::remove(idx), idx 0-based
VecRemove(items, idx) ==
    [k \in 1..(Len(items) - 1) |-> IF k <= idx THEN items[k] ELSE items[k + 1]]

\* Vec::insert(idx, item), idx 0-based
VecInsert(items, idx, item) ==
    [k \in 1..(Len(items) + 1) |->
        IF k <= idx THEN items[k] ELSE IF k = idx + 1 THEN item ELSE items[k - 1]]

\* what Collection::remove leaves and returns
Removal(items, removed) == [items |-> items, removed |-> removed]

RECURSIVE RemoveRandomSwap(_, _, _, _)
\* Mutant of RemoveRandom: Vec::swap_remove, the last item fills the gap.
RemoveRandomSwap(items, removed, n, picks) ==
    IF n = 0 THEN Removal(items, removed)
    ELSE IF Len(items) # 0
         THEN RemoveRandomSwap(
                SubSeq([items EXCEPT ![Head(picks) + 1] = items[Len(items)]],
                       1, Len(items) - 1),
                Append(removed, items[Head(picks) + 1]), n - 1, Tail(picks))
         ELSE RemoveRandomSwap(items, removed, n - 1, picks)

RECURSIVE RemoveRandom(_, _, _, _)
\* the `for _ in 0..count` loop of the random branch; picks[k] is the index the
\* k-th `choose` draws, any of 0..len-1
RemoveRandom(items, removed, n, picks) ==
    IF n = 0 THEN Removal(items, removed)
    ELSE IF Len(items) # 0
         THEN RemoveRandom(VecRemove(items, Head(picks)),
                           Append(removed, items[Head(picks) + 1]), n - 1, Tail(picks))
         ELSE RemoveRandom(items, removed, n - 1, picks)

RECURSIVE RemoveFromFront(_, _, _)
\* Mutant of RemoveFromEnd: the items are taken from the front.
RemoveFromFront(items, removed, n) ==
    IF n = 0 THEN Removal(items, removed)
    ELSE IF Len(items) # 0
         THEN RemoveFromFront(Tail(items), Append(removed, Head(items)), n - 1)
         ELSE RemoveFromFront(items, removed, n - 1)

RECURSIVE RemoveFromEnd(_, _, _)
\* the `for _ in 0..count` loop of the other branch: Vec::pop
RemoveFromEnd(items, removed, n) ==
    IF n = 0 THEN Removal(items, removed)
    ELSE IF Len(items) # 0
         THEN RemoveFromEnd(SubSeq(items, 1, Len(items) - 1),
                            Append(removed, items[Len(items)]), n - 1)
         ELSE RemoveFromEnd(items, removed, n - 1)

RemoveCount(count, items) == Min(count, Len(items))

Collection_remove(items, count, random, picks) ==
    IF random
    THEN RemoveRandom(items, <<>>, RemoveCount(count, items), picks)
    ELSE RemoveFromEnd(items, <<>>, RemoveCount(count, items))

\* the draws `choose` can make while removing n items from len items
ValidPicks(len, n) ==
    {p \in [1..n -> 0..(len - 1)] : \A k \in 1..n : p[k] <= len - k}

Collection_append(items, item) == Append(items, item)

\* Mutant of Collection_insert: an index past the end inserts at the front.
Collection_insert_front(items, index, item) ==
    IF index <= Len(items) THEN VecInsert(items, index, item)
    ELSE VecInsert(items, 0, item)

Collection_insert(items, index, item) ==
    IF index <= Len(items) THEN VecInsert(items, index, item) ELSE Append(items, item)

\* CollectionManager::get_or_create
get_or_create(colls, path) == IF path \in DOMAIN colls THEN colls ELSE Put(colls, path, <<>>)

(***************************************************************************)
(* EffectOperation and Predicate constructors (effect.rs).                 *)
(***************************************************************************)
OpAdd(target, amount) == [type |-> "Add", target |-> target, amount |-> amount]
OpSubtract(target, amount) == [type |-> "Subtract", target |-> target, amount |-> amount]
OpMultiply(target, factor) == [type |-> "Multiply", target |-> target, factor |-> factor]
OpSet(target, value) == [type |-> "Set", target |-> target, value |-> value]
OpFilter(target, predicate) == [type |-> "Filter", target |-> target, predicate |-> predicate]
OpRemove(target, count, filter, random) ==
    [type |-> "Remove", target |-> target, count |-> count, filter |-> filter,
     random |-> random]
OpAppend(target, item) == [type |-> "Append", target |-> target, item |-> item]
OpInsert(target, index, item) ==
    [type |-> "Insert", target |-> target, index |-> index, item |-> item]
OpSetFlag(flag, value) == [type |-> "SetFlag", flag |-> flag, value |-> value]
OpToggleFlag(flag) == [type |-> "ToggleFlag", flag |-> flag]
OpIfCondition(condition, then, else_) ==
    [type |-> "IfCondition", condition |-> condition, then |-> then, else_ |-> else_]
OpForEach(collection, operations) ==
    [type |-> "ForEach", collection |-> collection, operations |-> operations]
OpWhile(condition, operations, max_iterations) ==
    [type |-> "While", condition |-> condition, operations |-> operations,
     max_iterations |-> max_iterations]
OpOnEvent(event, operations) == [type |-> "OnEvent", event |-> event, operations |-> operations]
OpEmitEvent(event, data) == [type |-> "EmitEvent", event |-> event, data |-> data]
OpScheduleOperation(delay_seconds, operations) ==
    [type |-> "ScheduleOperation", delay_seconds |-> delay_seconds, operations |-> operations]
OpSetVariable(name, value) == [type |-> "SetVariable", name |-> name, value |-> value]
OpGetVariable(name) == [type |-> "GetVariable", name |-> name]

PCmp(type, field, value) == [type |-> type, field |-> field, value |-> value]
PEquals(field, value) == PCmp("Equals", field, value)
PNotEquals(field, value) == PCmp("NotEquals", field, value)
PHasTag(tag) == [type |-> "HasTag", tag |-> tag]
PIsType(card_type) == [type |-> "IsType", card_type |-> card_type]
PContains(field, value) == PCmp("Contains", field, value)
PAnd(predicates) == [type |-> "And", predicates |-> predicates]
POr(predicates) == [type |-> "Or", predicates |-> predicates]
PNot(predicate) == [type |-> "Not", predicate |-> predicate]
PExpression(expr) == [type |-> "Expression", expr |-> expr]

(***************************************************************************)
(* The executor's call stack.  A "list" frame is a `for op in ops` loop    *)
(* (execute_effect, a branch of IfCondition, the body of a While or a      *)
(* ForEach, one listener body); `i` is the operation it runs next.  The    *)
(* other frames are the loops of execute_while, execute_for_each and       *)
(* execute_emit_event with their local variables.                          *)
(***************************************************************************)
ListFrame(ops, role) == [kind |-> "list", ops |-> ops, i |-> 1, role |-> role]
WhileFrame(op, max) ==
    [kind |-> "while", condition |-> op.condition, operations |-> op.operations,
     max |-> max, iterations |-> 0]
ForEachFrame(path, items, operations) ==
    [kind |-> "foreach", path |-> path, items |-> items, idx |-> 0,
     operations |-> operations]
EmitFrame(listeners) == [kind |-> "emit", listeners |-> listeners, li |-> 1]

Top == stack[Len(stack)]
Running == Len(stack) > 0
AtOp == Running /\ Top.kind = "list" /\ Top.i <= Len(Top.ops)
CurOp == Top.ops[Top.i]
Pop(s) == SubSeq(s, 1, Len(s) - 1)
\* the current list frame moved past the operation it has just dispatched
Advanced == [stack EXCEPT ![Len(stack)].i = @ + 1]

Pending == [status |-> "Pending"]
RetOk == [status |-> "Ok"]
RetErr(e) == [status |-> "Err", err |-> e]
\* execute_effect did not return: a panic unwound through it
Panicked == [status |-> "Panic"]

\* Mutant of Propagate: the error is recorded but the list goes on.
PropagateAndGoOn(e) ==
    /\ result' = RetErr(e)
    /\ stack' = IF Top.kind = "list" THEN Advanced ELSE Pop(stack)

\* Mutant of Propagate: the error ends the body it occurred in and the loop
\* or branch around that body; whoever ran that one goes on.
PropagateToEnclosing(e) ==
    /\ result' = IF Len(stack) <= 2 THEN RetErr(e) ELSE result
    /\ stack' = IF Len(stack) <= 2 THEN <<>> ELSE SubSeq(stack, 1, Len(stack) - 2)

\* `?`: no frame of the executor catches an error, so it reaches the caller
\* of execute_effect and every loop in progress is abandoned
Propagate(e) ==
    /\ result' = RetErr(e)
    /\ stack' = <<>>

\* an operation that returned Ok(()): its list goes on with the next one
Continue(s) ==
    /\ stack' = s
    /\ result' = result

LogOp == [ev |-> "op", d |-> Len(stack), i |-> Top.i, type |-> CurOp.type]
LogPred(r) == [ev |-> "pred", d |-> Len(stack), r |-> r]
LogBody(role, d) == [ev |-> "body", d |-> d, role |-> role]
LogIter(item, index) ==
    [ev |-> "iter", d |-> Len(stack), item |-> item, index |-> index]

(***************************************************************************)
(* execute_effect (effect_executor/mod.rs): the caller hands in an effect. *)
(* `call` keeps the effect and the state the call started from.            *)
(***************************************************************************)
MaxCalls == 1

Entry(ops) ==
    [ops |-> ops, world |-> world, gs_vars |-> gs_vars, collections |-> collections,
     ctx |-> ctx, event_listeners |-> event_listeners]

\* a caller starts execute_effect; `max` bounds the calls of one behaviour
StartCall(ops, max) ==
    /\ ~Running
    /\ result # Panicked
    /\ calls < max
    /\ stack' = <<ListFrame(ops, "effect")>>
    /\ result' = Pending
    /\ call' = Entry(ops)
    /\ log' = <<>>
    /\ calls' = calls + 1
    /\ UNCHANGED <<world, gs_vars, collections, ctx, event_listeners>>

ExecuteEffect(ops) == StartCall(ops, MaxCalls)

\* the end of a `for op in ops` loop: the list returns Ok(()) to whoever ran it
AfterBody(frame) ==
    IF frame.kind = "while" THEN [frame EXCEPT !.iterations = @ + 1] ELSE frame

ListReturn ==
    /\ Running /\ Top.kind = "list" /\ Top.i > Len(Top.ops)
    /\ IF Len(stack) = 1
       THEN /\ stack' = <<>>
            /\ result' = RetOk
       ELSE /\ stack' = [Pop(stack) EXCEPT ![Len(stack) - 1] = AfterBody(@)]
            /\ result' = result
    /\ UNCHANGED <<world, gs_vars, collections, ctx, event_listeners, call, log, calls>>

(***************************************************************************)
(* Value and flag operations (value_ops.rs, flag_ops.rs).                  *)
(***************************************************************************)
\* a GameState mutator returned r: `false` is reported as InvalidPath(path)
Mutated(r, path) ==
    /\ world' = r.w
    /\ gs_vars' = r.gs
    /\ IF r.ok THEN Continue(Advanced) ELSE Propagate(InvalidPath(path))
    /\ log' = Append(log, LogOp)
    /\ UNCHANGED <<collections, ctx, event_listeners, call, calls>>

\* an integer overflow in a build with overflow checks: the thread panics
\* inside the operation, before GameState::set is reached
Panic ==
    /\ result' = Panicked
    /\ stack' = <<>>
    /\ log' = Append(log, LogOp)
    /\ UNCHANGED <<world, gs_vars, collections, ctx, event_listeners, call, calls>>

\* the build profiles: with and without overflow checks
OverflowChecks == BOOLEAN

Add ==
    /\ AtOp /\ CurOp.type = "Add"
    /\ \E checks \in OverflowChecks :
        IF checks /\ add_overflows(CurOp.target, CurOp.amount, gs_vars, world)
        THEN Panic
        ELSE Mutated(GameState_add(CurOp.target, CurOp.amount, gs_vars, world),
                     CurOp.target)

Subtract ==
    /\ AtOp /\ CurOp.type = "Subtract"
    /\ \E checks \in OverflowChecks :
        IF checks /\ subtract_overflows(CurOp.target, CurOp.amount, gs_vars, world)
        THEN Panic
        ELSE Mutated(GameState_subtract(CurOp.target, CurOp.amount, gs_vars, world),
                     CurOp.target)

Multiply ==
    /\ AtOp /\ CurOp.type = "Multiply"
    /\ Mutated(GameState_multiply(CurOp.target, CurOp.factor, gs_vars, world), CurOp.target)

Set ==
    /\ AtOp /\ CurOp.type = "Set"
    /\ Mutated(GameState_set(CurOp.target, CurOp.value, gs_vars, world), CurOp.target)

SetFlag ==
    /\ AtOp /\ CurOp.type = "SetFlag"
    /\ Mutated(GameState_set_flag(CurOp.flag, CurOp.value, gs_vars, world), CurOp.flag)

ToggleFlag ==
    /\ AtOp /\ CurOp.type = "ToggleFlag"
    /\ Mutated(GameState_toggle_flag(CurOp.flag, gs_vars, world), CurOp.flag)

(***************************************************************************)
(* Variable operations (variable_ops.rs).                                  *)
(***************************************************************************)
SetVariable ==
    /\ AtOp /\ CurOp.type = "SetVariable"
    /\ ctx' = Put(ctx, CurOp.name, CurOp.value)
    /\ Continue(Advanced)
    /\ log' = Append(log, LogOp)
    /\ UNCHANGED <<world, gs_vars, collections, event_listeners, call, calls>>

GetVariable ==
    /\ AtOp /\ CurOp.type = "GetVariable"
    /\ Continue(Advanced)
    /\ log' = Append(log, LogOp)
    /\ UNCHANGED <<world, gs_vars, collections, ctx, event_listeners, call, calls>>

(***************************************************************************)
(* Event operations (event_ops.rs, mod.rs).                                *)
(***************************************************************************)
MaxDepth == 6

\* Mutant of register_event_listener: a registration replaces the earlier ones.
register_event_listener_replacing(listeners, event, operations) ==
    Put(listeners, event, <<operations>>)

register_event_listener(listeners, event, operations) ==
    Put(listeners, event,
        Append(IF event \in DOMAIN listeners THEN listeners[event] ELSE <<>>, operations))

\* Mutant of get_event_listeners: a depth guard, no listeners below depth 4.
get_event_listeners_guarded(listeners, event) ==
    IF event \in DOMAIN listeners /\ Len(stack) < 4
    THEN Some(listeners[event]) ELSE None

\* Mutant of get_event_listeners: the listeners are handed out once per call.
get_event_listeners_once(listeners, event) ==
    IF event \in DOMAIN listeners
          /\ \A i \in 1..Len(log) : ~(log[i].ev = "body" /\ log[i].role = "listener")
    THEN Some(listeners[event]) ELSE None

get_event_listeners(listeners, event) ==
    IF event \in DOMAIN listeners THEN Some(listeners[event]) ELSE None

\* `context.set_variable(format!("event.{}", key), value)` for every key of data
MergeEventData(c, data) ==
    [k \in DOMAIN c \cup {EventKey(key) : key \in DOMAIN data} |->
        IF \E key \in DOMAIN data : EventKey(key) = k
        THEN data[CHOOSE key \in DOMAIN data : EventKey(key) = k]
        ELSE c[k]]

\* Mutant of Dispatch: an emit made by a listener is queued behind the rest
\* of that listener's body.
DispatchQueued(s, listeners) ==
    IF Len(s) >= 3
    THEN SubSeq(s, 1, Len(s) - 1) \o <<EmitFrame(listeners), s[Len(s)]>>
    ELSE Append(s, EmitFrame(listeners))

\* the listeners run inside execute_emit_event, on top of the frame that
\* executed the EmitEvent
Dispatch(s, listeners) == Append(s, EmitFrame(listeners))

\* Mutant of OnEvent: a dispatch in progress iterates the registry's own list,
\* so the body registered for its event joins the listeners it still has to run.
OnEventSeenByDispatch ==
    /\ AtOp /\ CurOp.type = "OnEvent"
    /\ event_listeners' =
            register_event_listener(event_listeners, CurOp.event, CurOp.operations)
    /\ LET L == IF CurOp.event \in DOMAIN event_listeners
                THEN event_listeners[CurOp.event] ELSE <<>>
           Live(f) == /\ f.kind = "emit"
                      /\ Len(f.listeners) <= Len(L)
                      /\ SubSeq(L, 1, Len(f.listeners)) = f.listeners
       IN  Continue([d \in 1..Len(stack) |->
                        IF Live(Advanced[d])
                        THEN [Advanced[d] EXCEPT !.listeners = Append(@, CurOp.operations)]
                        ELSE Advanced[d]])
    /\ log' = Append(log, LogOp)
    /\ UNCHANGED <<world, gs_vars, collections, ctx, call, calls>>

OnEvent ==
    /\ AtOp /\ CurOp.type = "OnEvent"
    /\ event_listeners' =
            register_event_listener(event_listeners, CurOp.event, CurOp.operations)
    /\ Continue(Advanced)
    /\ log' = Append(log, LogOp)
    /\ UNCHANGED <<world, gs_vars, collections, ctx, call, calls>>

EmitEvent ==
    /\ AtOp /\ CurOp.type = "EmitEvent"
    /\ Len(stack) < MaxDepth
    /\ LET listeners == get_event_listeners(event_listeners, CurOp.event) IN
       IF listeners.some
       THEN /\ ctx' = IF CurOp.data.some THEN MergeEventData(ctx, CurOp.data.v) ELSE ctx
            /\ Continue(Dispatch(Advanced, listeners.v))
       ELSE /\ ctx' = ctx
            /\ Continue(Advanced)
    /\ log' = Append(log, LogOp)
    /\ UNCHANGED <<world, gs_vars, collections, event_listeners, call, calls>>

\* the `for operations in listeners` loop of execute_emit_event
EmitNext ==
    /\ Running /\ Top.kind = "emit"
    /\ IF Top.li > Len(Top.listeners)
       THEN /\ Continue(Pop(stack))
            /\ log' = log
       ELSE /\ Continue(Append([stack EXCEPT ![Len(stack)].li = @ + 1],
                               ListFrame(Top.listeners[Top.li], "listener")))
            /\ log' = Append(log, LogBody("listener", Len(stack)))
    /\ UNCHANGED <<world, gs_vars, collections, ctx, event_listeners, call, calls>>

\* EffectExecutor::clear_listeners, called by the owner of the executor
\* between two execute_effect calls; clearing an empty registry changes nothing
ClearListeners ==
    /\ ~Running
    /\ event_listeners # EmptyMap
    /\ event_listeners' = EmptyMap
    /\ log' = Append(log, [ev |-> "clear", d |-> 0])
    /\ UNCHANGED <<world, gs_vars, collections, ctx, stack, result, call, calls>>

\* Mutant of ScheduleOperation: the nested operations are run at once.
ScheduleOperationAtOnce ==
    /\ AtOp /\ CurOp.type = "ScheduleOperation"
    /\ Continue(Append(Advanced, ListFrame(CurOp.operations, "scheduled")))
    /\ log' = Append(log, LogOp)
    /\ UNCHANGED <<world, gs_vars, collections, ctx, event_listeners, call, calls>>

ScheduleOperation ==
    /\ AtOp /\ CurOp.type = "ScheduleOperation"
    /\ Continue(Advanced)
    /\ log' = Append(log, LogOp)
    /\ UNCHANGED <<world, gs_vars, collections, ctx, event_listeners, call, calls>>

(***************************************************************************)
(* Collection operations (collection_ops.rs).  Each handler first asks the *)
(* World for the CollectionManager resource.                               *)
(***************************************************************************)
NoManager == OperationError("CollectionManager not available")

\* Mutant of execute_filter: the collection is looked up with get_or_create.
execute_filter_creating(target, predicate, colls) ==
    [get_or_create(colls, target) EXCEPT ![target] = Collection_filter(@, predicate)]

execute_filter(target, predicate, colls) ==
    IF target \in DOMAIN colls
    THEN [colls EXCEPT ![target] = Collection_filter(@, predicate)]
    ELSE colls

\* Mutant of PreFiltered: the pre-filter is not applied.
PreFilterSkipped(items, filter) == items

\* the collection Remove draws from: the pre-filter is applied in place first
PreFiltered(items, filter) ==
    IF filter.some THEN Collection_filter(items, filter.v) ELSE items

\* Mutant of RemovedValue: always an Array.
RemovedAlwaysArray(removed) == VArray(removed)

\* what is stored in the context variable `removed`
RemovedValue(removed) ==
    IF Len(removed) = 1 THEN removed[1] ELSE VArray(removed)

IsRandom(random) == IF random.some THEN random.v ELSE FALSE

\* execute_remove on an existing collection; picks are the random draws
execute_remove(op, colls, c, picks) ==
    LET r == Collection_remove(PreFiltered(colls[op.target], op.filter), op.count,
                               IsRandom(op.random), picks)
    IN  [collections |-> [colls EXCEPT ![op.target] = r.items],
         ctx |-> Put(c, "removed", RemovedValue(r.removed))]

PicksFor(op, colls) ==
    IF IsRandom(op.random)
    THEN LET items == PreFiltered(colls[op.target], op.filter) IN
         ValidPicks(Len(items), RemoveCount(op.count, items))
    ELSE {<<>>}

\* str::to_lowercase over the paths of the inputs
LowerCase(path) == IF path = "Items" THEN "items" ELSE path

\* Mutant of execute_append: the path is looked up without regard to case.
execute_append_ignoring_case(target, item, colls) ==
    [get_or_create(colls, LowerCase(target)) EXCEPT
        ![LowerCase(target)] = Collection_append(@, item)]

execute_append(target, item, colls) ==
    [get_or_create(colls, target) EXCEPT ![target] = Collection_append(@, item)]

execute_insert(target, index, item, colls) ==
    [get_or_create(colls, target) EXCEPT ![target] = Collection_insert(@, index, item)]

Filter ==
    /\ AtOp /\ CurOp.type = "Filter"
    /\ IF world.has_cm
       THEN /\ collections' = execute_filter(CurOp.target, CurOp.predicate, collections)
            /\ Continue(Advanced)
       ELSE /\ collections' = collections
            /\ Propagate(NoManager)
    /\ log' = Append(log, LogOp)
    /\ UNCHANGED <<world, gs_vars, ctx, event_listeners, call, calls>>

Remove ==
    /\ AtOp /\ CurOp.type = "Remove"
    /\ IF ~world.has_cm
       THEN /\ Propagate(NoManager)
            /\ UNCHANGED <<collections, ctx>>
       ELSE IF CurOp.target \notin DOMAIN collections
       THEN /\ Continue(Advanced)
            /\ UNCHANGED <<collections, ctx>>
       ELSE \E picks \in PicksFor(CurOp, collections) :
            LET r == execute_remove(CurOp, collections, ctx, picks) IN
            /\ collections' = r.collections
            /\ ctx' = r.ctx
            /\ Continue(Advanced)
    /\ log' = Append(log, LogOp)
    /\ UNCHANGED <<world, gs_vars, event_listeners, call, calls>>

AppendOp ==
    /\ AtOp /\ CurOp.type = "Append"
    /\ IF world.has_cm
       THEN /\ collections' = execute_append(CurOp.target, CurOp.item, collections)
            /\ Continue(Advanced)
       ELSE /\ collections' = collections
            /\ Propagate(NoManager)
    /\ log' = Append(log, LogOp)
    /\ UNCHANGED <<world, gs_vars, ctx, event_listeners, call, calls>>

Insert ==
    /\ AtOp /\ CurOp.type = "Insert"
    /\ IF world.has_cm
       THEN /\ collections' =
                    execute_insert(CurOp.target, CurOp.index, CurOp.item, collections)
            /\ Continue(Advanced)
       ELSE /\ collections' = collections
            /\ Propagate(NoManager)
    /\ log' = Append(log, LogOp)
    /\ UNCHANGED <<world, gs_vars, ctx, event_listeners, call, calls>>

(***************************************************************************)
(* Control flow (control_flow.rs).                                         *)
(***************************************************************************)
DefaultMaxIterations == 100

\* the branch execute_if_condition runs when the condition evaluated to met
\* Mutant of Branch: the lists are taken the other way round.
BranchInverted(op, met) ==
    IF ~met THEN Some(ListFrame(op.then, "then"))
    ELSE IF op.else_.some THEN Some(ListFrame(op.else_.v, "else"))
    ELSE None

Branch(op, met) ==
    IF met THEN Some(ListFrame(op.then, "then"))
    ELSE IF op.else_.some THEN Some(ListFrame(op.else_.v, "else"))
    ELSE None

IfCondition ==
    /\ AtOp /\ CurOp.type = "IfCondition"
    /\ LET r == evaluate_predicate(CurOp.condition, ctx, gs_vars, world) IN
       IF ~r.ok
       THEN /\ Propagate(r.err)
            /\ log' = log \o <<LogOp, LogPred(r)>>
       ELSE LET b == Branch(CurOp, r.v) IN
            IF b.some
            THEN /\ Continue(Append(Advanced, b.v))
                 /\ log' = log \o <<LogOp, LogPred(r), LogBody(b.v.role, Len(stack))>>
            ELSE /\ Continue(Advanced)
                 /\ log' = log \o <<LogOp, LogPred(r)>>
    /\ UNCHANGED <<world, gs_vars, collections, ctx, event_listeners, call, calls>>

\* Mutant of MaxOf: another default bound.
MaxOfDefault10(max_iterations) ==
    IF max_iterations.some THEN max_iterations.v ELSE 10

MaxOf(max_iterations) ==
    IF max_iterations.some THEN max_iterations.v ELSE DefaultMaxIterations

\* execute_while up to its loop: `max` and `iterations = 0`
While ==
    /\ AtOp /\ CurOp.type = "While"
    /\ Continue(Append(Advanced, WhileFrame(CurOp, MaxOf(CurOp.max_iterations))))
    /\ log' = Append(log, LogOp)
    /\ UNCHANGED <<world, gs_vars, collections, ctx, event_listeners, call, calls>>

\* Mutant of BoundReached: the bound is tested one iteration late.
BoundReachedLate(iterations, max) == iterations > max

BoundReached(iterations, max) == iterations >= max

\* Mutant of WhileTest: the bound is consulted before the predicate.
WhileTestBoundFirst ==
    /\ Running /\ Top.kind = "while"
    /\ IF BoundReached(Top.iterations, Top.max)
       THEN /\ Propagate(MaxIterationsReached)
            /\ log' = log
       ELSE LET r == evaluate_predicate(Top.condition, ctx, gs_vars, world) IN
            IF ~r.ok
            THEN /\ Propagate(r.err)
                 /\ log' = Append(log, LogPred(r))
            ELSE IF ~r.v
            THEN /\ Continue(Pop(stack))
                 /\ log' = Append(log, LogPred(r))
            ELSE /\ Continue(Append(stack, ListFrame(Top.operations, "while_body")))
                 /\ log' = log \o <<LogPred(r), LogBody("while_body", Len(stack))>>
    /\ UNCHANGED <<world, gs_vars, collections, ctx, event_listeners, call, calls>>

\* one turn of the `while evaluate_predicate(..)?` loop, up to the body
WhileTest ==
    /\ Running /\ Top.kind = "while"
    /\ LET r == evaluate_predicate(Top.condition, ctx, gs_vars, world) IN
       IF ~r.ok
       THEN /\ Propagate(r.err)
            /\ log' = Append(log, LogPred(r))
       ELSE IF ~r.v
       THEN /\ Continue(Pop(stack))
            /\ log' = Append(log, LogPred(r))
       ELSE IF BoundReached(Top.iterations, Top.max)
       THEN /\ Propagate(MaxIterationsReached)
            /\ log' = Append(log, LogPred(r))
       ELSE /\ Continue(Append(stack, ListFrame(Top.operations, "while_body")))
            /\ log' = log \o <<LogPred(r), LogBody("while_body", Len(stack))>>
    /\ UNCHANGED <<world, gs_vars, collections, ctx, event_listeners, call, calls>>

\* `collection.to_vec()`, or the empty vector when the path has no collection
Snapshot(colls, path) == IF path \in DOMAIN colls THEN colls[path] ELSE <<>>

ForEach ==
    /\ AtOp /\ CurOp.type = "ForEach"
    /\ IF world.has_cm
       THEN Continue(Append(Advanced,
                ForEachFrame(CurOp.collection, Snapshot(collections, CurOp.collection),
                             CurOp.operations)))
       ELSE Propagate(NoManager)
    /\ log' = Append(log, LogOp)
    /\ UNCHANGED <<world, gs_vars, collections, ctx, event_listeners, call, calls>>

\* Mutant of NextItem: the items are taken from the end.
NextItemReversed(frame) == frame.items[Len(frame.items) - frame.idx]

\* Mutant of NextItem: the item is read from the collection as it is now.
NextItemLive(frame) ==
    LET live == Snapshot(collections, frame.path) IN
    IF frame.idx + 1 <= Len(live) THEN live[frame.idx + 1] ELSE frame.items[frame.idx + 1]

\* the item `items.iter().enumerate()` yields next, as the frame sees it
NextItem(frame) == frame.items[frame.idx + 1]

\* one turn of the `for (index, item) in items.iter().enumerate()` loop
ForEachNext ==
    /\ Running /\ Top.kind = "foreach"
    /\ IF Top.idx >= Len(Top.items)
       THEN /\ Continue(Pop(stack))
            /\ ctx' = ctx
            /\ log' = log
       ELSE /\ ctx' = Put(Put(ctx, "item", NextItem(Top)), "index", VInt(Top.idx))
            /\ Continue(Append([stack EXCEPT ![Len(stack)].idx = @ + 1],
                               ListFrame(Top.operations, "foreach_body")))
            /\ log' = log \o <<LogIter(NextItem(Top), Top.idx),
                               LogBody("foreach_body", Len(stack))>>
    /\ UNCHANGED <<world, gs_vars, collections, event_listeners, call, calls>>

(***************************************************************************)
(* Inputs: the worlds, collections, contexts and effects the executor is   *)
(* run on.                                                                 *)
(***************************************************************************)
MaxItems == 2
MaxIter == 3

ItemA == VObject([id |-> VInt(1), correct |-> VBool(TRUE), value |-> VInt(10)])
ItemB == VObject([id |-> VInt(2), correct |-> VBool(FALSE), value |-> VInt(20)])
ItemC == VInt(5)
ItemNew == VObject([id |-> VInt(99), correct |-> VBool(TRUE), value |-> VInt(999)])
ItemPool == {ItemA, ItemB, ItemC}

\* a World as the tests set it up: a 300 s timer, score 10 of 6, no card deployed
BaseWorld ==
    [has_timer |-> TRUE, duration |-> 300 * TicksPerSec, elapsed |-> 0,
     paused |-> FALSE, timer_paused |-> FALSE,
     has_score |-> TRUE, current |-> 10, passing_grade |-> 6,
     has_cards |-> TRUE, deployed |-> 0, has_cm |-> TRUE]

SeqsUpTo(S, n) == UNION {[1..k -> S] : k \in 0..n}

\* the CollectionManager: the path "items" absent, or holding up to MaxItems items
CollectionInputs ==
    {EmptyMap} \cup {[p \in {"items"} |-> s] : s \in SeqsUpTo(ItemPool, MaxItems)}

\* the caller's context: fresh, or with variables left by an earlier use
ContextInputs ==
    {EmptyMap, [k \in {"item", "index"} |-> IF k = "item" THEN VStr("old") ELSE VInt(7)]}

\* four operations that each change one part of the state and cannot fail
\* while the Score and CollectionManager resources exist
MarkAdd == OpAdd("score.current", 1)
MarkAppend == OpAppend("items", ItemNew)
MarkSetVar == OpSetVariable("x", VInt(7))
MarkOnEvent == OpOnEvent("scored", <<MarkAdd>>)
Marks == <<MarkAdd, MarkAppend, MarkSetVar, MarkOnEvent>>

\* operations that fail where they stand
FailingOps ==
    {OpAdd("bogus.path", 1), OpToggleFlag("score.current"),
     OpWhile(PAnd(<<>>), <<>>, Some(0))}

\* k marks, a failing operation, then all the marks
FailFastEffects ==
    {SubSeq(Marks, 1, k) \o <<bad>> \o Marks : k \in 0..Len(Marks), bad \in FailingOps}

AlwaysTrue == {PAnd(<<>>), PEquals("score.passing_grade", VInt(6))}
MaxInputs == {None} \cup {Some(m) : m \in 0..MaxIter}

BoundedLoopEffects ==
    {<<OpWhile(c, <<MarkAdd>>, m)>> : c \in AlwaysTrue, m \in MaxInputs}

\* loops that end for every other reason: the condition turns false, the
\* condition or the body fails, a loop inside a loop
LoopConditions ==
    {PCmp("LessThan", "score.current", VInt(12)),
     PCmp("LessThan", "$counter", VInt(5)),
     PCmp("GreaterThan", "timer.paused", VInt(0)),
     PNot(PHasTag("idf"))}
LoopBodies ==
    {<<>>, <<MarkAdd>>, <<MarkAdd, OpAdd("bogus.path", 1)>>,
     <<OpWhile(PCmp("LessThan", "score.current", VInt(13)), <<MarkAdd>>, Some(2))>>,
     <<OpForEach("items", <<MarkAdd>>)>>}
OtherLoopEffects ==
    {<<OpWhile(c, b, m)>> : c \in LoopConditions, b \in LoopBodies,
                            m \in {Some(MaxIter - 1), Some(MaxIter)}}

ForEachBodies ==
    {<<>>, <<MarkAdd>>, <<OpSetVariable("last_item", VInt(0))>>,
     <<OpSetVariable("item", VNull)>>,
     <<OpForEach("items", <<OpGetVariable("item")>>)>>}
ForEachEffects == {<<OpForEach("items", b)>> : b \in ForEachBodies}

\* bodies that change the collection being iterated
SelfChangingBodies ==
    {<<MarkAppend>>, <<OpInsert("items", 0, ItemNew)>>,
     <<OpFilter("items", PEquals("correct", VBool(TRUE)))>>,
     <<OpRemove("items", 1, None, None)>>,
     <<OpRemove("items", 1, Some(PEquals("correct", VBool(FALSE))), Some(TRUE))>>}
SelfChangingEffects == {<<OpForEach("items", b)>> : b \in SelfChangingBodies}

\* conditions on score.current (10 on entry), with branches that change it
IfConditions ==
    {PCmp("GreaterThan", "score.current", VInt(5)),
     PCmp("LessThan", "score.current", VInt(5)),
     PCmp("GreaterThan", "timer.remaining", VInt(200)),
     PEquals("bogus.path", VInt(1))}
IfEffects ==
    {<<OpIfCondition(c, <<OpSubtract("score.current", 8)>>, e), MarkSetVar>> :
        c \in IfConditions,
        e \in {None, Some(<<OpAdd("score.current", 5)>>), Some(<<>>)}}

\* the remaining operation kinds
OtherEffects ==
    {<<OpMultiply("score.current", 3), OpSet("var.x", VInt(1)), OpSetFlag("timer.paused", TRUE),
       OpToggleFlag("timer.paused"), OpGetVariable("nope"),
       OpScheduleOperation(5, <<MarkAdd>>)>>,
     <<MarkOnEvent, MarkOnEvent, OpEmitEvent("scored", None),
       OpEmitEvent("scored", Some([points |-> VInt(3)])), OpEmitEvent("other", None)>>,
     \* a listener that emits its own event, emitted from inside a loop
     <<OpOnEvent("again", <<MarkAdd, OpEmitEvent("again", None)>>),
       OpWhile(PAnd(<<>>), <<OpEmitEvent("again", None)>>, Some(1))>>}

EffectInputs ==
    FailFastEffects \cup BoundedLoopEffects \cup OtherLoopEffects \cup ForEachEffects
        \cup SelfChangingEffects \cup IfEffects \cup OtherEffects

(***************************************************************************)
(* The executor on its own: a new EffectExecutor and GameState, one        *)
(* caller.                                                                 *)
(***************************************************************************)
Init ==
    /\ world = BaseWorld
    /\ gs_vars = EmptyMap
    /\ collections \in CollectionInputs
    /\ ctx \in ContextInputs
    /\ event_listeners = EmptyMap
    /\ stack = <<>>
    /\ result = Pending
    /\ call = Entry(<<>>)
    /\ log = <<>>
    /\ calls = 0

Call == \E ops \in EffectInputs : ExecuteEffect(ops)

Next ==
    \/ Call
    \/ ListReturn
    \/ Add \/ Subtract \/ Multiply \/ Set
    \/ SetFlag \/ ToggleFlag
    \/ SetVariable \/ GetVariable
    \/ OnEvent \/ EmitEvent \/ EmitNext \/ ScheduleOperation
    \/ Filter \/ Remove \/ AppendOp \/ Insert
    \/ IfCondition \/ While \/ WhileTest \/ ForEach \/ ForEachNext

Spec == Init /\ [][Next]_vars

FairSpec == Spec /\ WF_vars(Next)

(***************************************************************************)
(* Collection operations on their own: one Filter, Remove, Append or       *)
(* Insert per call, on collections of up to MaxLen items.                  *)
(***************************************************************************)
MaxLen == 3
MaxCount == 4

\* an item with tags and a nested object
ItemT == VObject([id |-> VInt(3), tags |-> VArray(<<VStr("rare")>>),
                  stats |-> VObject([value |-> VInt(7)])])
CollPool == {ItemA, ItemB, ItemC, ItemT}

\* the CollectionManager holds "items" and a second collection, "discard"
CollCatalogue ==
    {[p \in {"items", "discard"} |-> IF p = "items" THEN s ELSE <<ItemB>>] :
        s \in SeqsUpTo(CollPool, MaxLen)}

ItemPredicates ==
    {PEquals("correct", VBool(TRUE)),
     PEquals("correct", VBool(FALSE)),
     PNot(PEquals("correct", VBool(TRUE))),
     PCmp("GreaterThan", "value", VInt(15)),
     PCmp("LessThan", "stats.value", VInt(9)),
     PHasTag("rare"),
     POr(<<PHasTag("rare"), PNotEquals("id", VInt(1))>>),
     PExpression("len > 0")}

PreFilters ==
    {None, Some(PEquals("correct", VBool(FALSE))), Some(PNotEquals("id", VInt(1))),
     Some(PHasTag("rare"))}

FilterEffects == {<<OpFilter("items", q)>> : q \in ItemPredicates}
RemoveEffects ==
    {<<OpRemove("items", k, f, r)>> :
        k \in 0..MaxCount, f \in PreFilters, r \in {None, Some(FALSE), Some(TRUE)}}
GrowEffects ==
    {<<OpAppend("items", ItemNew)>>} \cup
    {<<OpInsert("items", index, ItemNew)>> : index \in 0..MaxCount}
\* the "eliminate a wrong answer" effect of examples/effect_demo.rs
ScenarioEffects ==
    {<<OpFilter("items", q), OpRemove("items", 1, None, Some(TRUE))>> :
        q \in ItemPredicates}
\* operations on the path "ghost", which the CollectionManager does not hold
MissingPathEffects ==
    {<<OpFilter("ghost", PHasTag("rare"))>>,
     <<OpRemove("ghost", 1, None, None)>>,
     <<OpRemove("ghost", 2, Some(PHasTag("rare")), Some(TRUE))>>,
     <<OpAppend("ghost", ItemNew)>>,
     <<OpInsert("ghost", 0, ItemNew)>>,
     <<OpInsert("ghost", 2, ItemNew)>>}
CollEffects ==
    FilterEffects \cup RemoveEffects \cup GrowEffects \cup ScenarioEffects
        \cup MissingPathEffects

InitColl ==
    /\ world = BaseWorld
    /\ gs_vars = EmptyMap
    /\ collections \in CollCatalogue
    /\ ctx \in {EmptyMap, [k \in {"removed"} |-> VStr("old")]}
    /\ event_listeners = EmptyMap
    /\ stack = <<>>
    /\ result = Pending
    /\ call = Entry(<<>>)
    /\ log = <<>>
    /\ calls = 0

CallColl == \E ops \in CollEffects : ExecuteEffect(ops)

NextColl ==
    \/ CallColl
    \/ ListReturn
    \/ Filter \/ Remove \/ AppendOp \/ Insert

SpecColl == InitColl /\ [][NextColl]_vars

(***************************************************************************)
(* Events on their own: effects that register listeners and emit events,   *)
(* on an executor that lives across calls and whose owner may call         *)
(* clear_listeners between them.                                           *)
(***************************************************************************)
\* listener bodies; Add and Set on the score do not commute
BodyAdd == <<MarkAdd>>
BodySet == <<OpSet("score.current", VInt(50))>>
BodyMark == <<MarkSetVar>>

Registrations ==
    {OpOnEvent("scored", BodyAdd), OpOnEvent("scored", BodySet),
     OpOnEvent("other", BodyMark)}

\* up to two registrations, then the event "scored" is emitted
RegisterEmitEffects ==
    {regs \o <<OpEmitEvent("scored", None)>> : regs \in SeqsUpTo(Registrations, 2)}

\* "scored" emitted one to three times in one effect
RepeatEmitEffects ==
    {[j \in 1..k |-> OpEmitEvent("scored", None)] : k \in 1..3}

\* events emitted with data; nothing is ever registered for "quiet"
EventData == {[k \in {"points"} |-> VInt(3)],
              [k \in {"points", "bonus"} |-> IF k = "points" THEN VInt(5) ELSE VInt(1)]}
DataEmitEffects ==
    {<<OpEmitEvent(e, Some(d))>> : e \in {"scored", "other", "quiet"}, d \in EventData}
        \cup
    {<<OpEmitEvent(e, Some([k \in {"points", "bonus"} |->
                                IF k = "points" THEN VInt(5) ELSE VInt(1)])),
       OpEmitEvent(e, Some([k \in {"points"} |-> VInt(3)]))>> :
        e \in {"scored", "quiet"}}

\* the first listener of "a" emits "b" in the middle of its body
BodyA1 == <<MarkAdd, OpEmitEvent("b", Some([k \in {"points"} |-> VInt(3)])),
            OpSet("score.current", VInt(50))>>
BodyA2 == <<MarkAdd>>
BodyB1 == <<OpSet("score.current", VInt(20))>>
BodyB2 == <<MarkAdd>>
NestedEmitEffect ==
    <<OpOnEvent("a", BodyA1), OpOnEvent("a", BodyA2),
      OpOnEvent("b", BodyB1), OpOnEvent("b", BodyB2), OpEmitEvent("a", None)>>

\* listeners that emit the event they listen to, directly or through a chain
SelfEmitEffects ==
    {<<OpOnEvent("again", <<MarkAdd, OpEmitEvent("again", None)>>),
       OpEmitEvent("again", None)>>,
     <<OpOnEvent("ping", <<MarkAdd, OpEmitEvent("pong", None)>>),
       OpOnEvent("pong", <<OpEmitEvent("ping", None)>>),
       OpEmitEvent("ping", None)>>}

RECURSIVE Regrow(_)
\* a listener of "grow" that adds one point and registers the next copy of
\* itself; an operation tree is finite, so the innermost copy only adds
Regrow(d) ==
    IF d = 0 THEN <<MarkAdd>>
    ELSE <<MarkAdd, OpOnEvent("grow", Regrow(d - 1))>>
RegrowDepth == 3
\* the listener registered, then "grow" emitted one to three times
RegrowEffects ==
    {<<OpOnEvent("grow", Regrow(RegrowDepth))>> \o [j \in 1..k |-> OpEmitEvent("grow", None)] :
        k \in 1..3}

EventNames == {"scored", "other", "quiet", "a", "b", "again", "ping", "pong", "grow"}

\* operations handed to ScheduleOperation: each would leave a trace, or fail
ScheduledBodies ==
    {<<MarkAdd>>, <<MarkSetVar>>, <<MarkOnEvent>>, <<OpAdd("bogus.path", 1)>>,
     <<OpEmitEvent("scored", None)>>}
\* ScheduleOperation and GetVariable alone, and followed by other operations
InertEffects ==
    {<<OpScheduleOperation(d, b)>> : d \in {0, 5}, b \in ScheduledBodies}
        \cup {<<OpGetVariable(n)>> : n \in {"event.points", "nope"}}
        \cup {<<OpScheduleOperation(5, <<MarkAdd>>), OpGetVariable("nope"), MarkSetVar>>}

EventEffects ==
    RegisterEmitEffects \cup RepeatEmitEffects \cup DataEmitEffects
        \cup {NestedEmitEffect} \cup SelfEmitEffects \cup InertEffects
        \cup RegrowEffects

InitEv ==
    /\ world = BaseWorld
    /\ gs_vars = EmptyMap
    /\ collections = EmptyMap
    /\ ctx \in {EmptyMap, [k \in {"event.points", "event.bonus"} |-> VInt(9)]}
    /\ event_listeners = EmptyMap
    /\ stack = <<>>
    /\ result = Pending
    /\ call = Entry(<<>>)
    /\ log = <<>>
    /\ calls = 0

\* the executor of this specification serves one call more than MaxCalls
CallEv == \E ops \in EventEffects : StartCall(ops, MaxCalls + 1)

NextEv ==
    \/ CallEv
    \/ ClearListeners
    \/ ListReturn
    \/ OnEvent \/ EmitEvent \/ EmitNext
    \/ Add \/ Set \/ SetVariable
    \/ ScheduleOperation \/ GetVariable

SpecEv == InitEv /\ [][NextEv]_vars

(***************************************************************************)
(* Predicates on their own: an IfCondition for the state-level evaluator,  *)
(* a Filter for the item-level evaluator.                                  *)
(***************************************************************************)
\* right-hand operands: numbers and non-numbers
OperandValues ==
    {VInt(5), VFloat(11 * FloatDen), VStr("5"), VBool(TRUE), VNull, VArray(<<VInt(1)>>)}

\* left-hand fields: Int, Float and Bool state paths and a context variable
StateFields == {"score.current", "timer.percent_remaining", "timer.paused", "$x"}

StateComparisons ==
    {PCmp(op, f, v) : op \in Comparisons, f \in StateFields, v \in OperandValues}

\* the predicate kinds the state-level evaluator does not implement
UnimplementedPredicates ==
    {PHasTag("rare"), PIsType("boss"), PContains("score.current", VInt(10)),
     PContains("bogus.path", VInt(1)), PContains("$x", VStr("b")), PExpression("1 == 1")}

\* the `then` list raises the score, the `else` list sets the variable `branch`
Decide(p) == <<OpIfCondition(p, <<MarkAdd>>, Some(<<OpSetVariable("branch", VStr("else"))>>))>>

StateCmpEffects == {Decide(p) : p \in StateComparisons}
UnimplementedEffects ==
    {Decide(p) : p \in UnimplementedPredicates}
        \cup {Decide(PNot(p)) : p \in UnimplementedPredicates}

\* item fields: `value` is an Int, `correct` a Bool, `stats.value` nested, `tags` an Array
ItemFields == {"value", "correct", "stats.value", "tags"}
ItemComparisons ==
    {PCmp(op, f, v) : op \in Comparisons, f \in ItemFields,
                      v \in {VInt(15), VStr("15"), VNull}}
\* fields that are present, missing, and behind a value that is no Object
EqualityFields == {"value", "missing", "value.x", "stats.missing"}
EqualityPredicates ==
    {PCmp(op, f, v) : op \in {"Equals", "NotEquals", "GreaterThan", "LessOrEqual"},
                      f \in EqualityFields, v \in {VInt(10), VNull}}
ItemEqEffects == {<<OpFilter("items", q)>> : q \in EqualityPredicates}

ItemCmpEffects ==
    {<<OpFilter("items", q)>> : q \in ItemComparisons}
        \cup {<<OpFilter("items", PNot(q))>> : q \in ItemComparisons}

\* predicates to combine: true, false, failing with InvalidPath and with
\* InvalidValue, unimplemented, and combinations of them
StateBase ==
    {PEquals("score.current", VInt(10)), PEquals("score.current", VInt(999)),
     PNotEquals("$x", VInt(8)),
     PCmp("GreaterThan", "score.current", VInt(5)),
     PCmp("LessThan", "bogus.path", VInt(5)),
     PCmp("LessThan", "timer.paused", VInt(5)),
     PHasTag("rare")}
StateCombined ==
    StateBase
        \cup {PAnd(<<>>), POr(<<>>)}
        \cup {PAnd(<<a, b>>) : a, b \in {PEquals("score.current", VInt(10)),
                                         PCmp("LessThan", "bogus.path", VInt(5)),
                                         PEquals("score.current", VInt(999))}}
        \cup {POr(<<a, b>>) : a, b \in {PEquals("score.current", VInt(10)),
                                        PCmp("LessThan", "timer.paused", VInt(5)),
                                        PEquals("score.current", VInt(999))}}
        \cup {PNot(a) : a \in StateBase}
ItemBase ==
    {PEquals("correct", VBool(TRUE)), PNotEquals("missing", VInt(1)),
     PCmp("GreaterThan", "value", VInt(15)), PCmp("LessThan", "correct", VInt(15)),
     PHasTag("rare"), PIsType("boss"), PContains("tags", VStr("rare")),
     PExpression("1 == 1")}
ItemCombined ==
    ItemBase
        \cup {PAnd(<<>>), POr(<<>>)}
        \cup {PAnd(<<a, b>>) : a, b \in {PEquals("correct", VBool(TRUE)),
                                         PCmp("GreaterThan", "value", VInt(15))}}
        \cup {POr(<<a, b>>) : a, b \in {PEquals("correct", VBool(TRUE)),
                                        PCmp("GreaterThan", "value", VInt(15))}}
        \cup {PNot(a) : a \in ItemBase}

\* And([]), Or([]) and Not(Not(p)), at the state level and at the item level
BoolEffects ==
    {Decide(PAnd(<<>>)), Decide(POr(<<>>))}
        \cup {Decide(PNot(PNot(p))) : p \in StateCombined}
        \cup {<<OpFilter("items", PAnd(<<>>))>>, <<OpFilter("items", POr(<<>>))>>}
        \cup {<<OpFilter("items", PNot(PNot(q)))>> : q \in ItemCombined}

\* an item whose `value` is the Float 10.0, next to ItemA whose `value` is the Int 10
ItemF == VObject([id |-> VInt(4), correct |-> VBool(TRUE), value |-> VFloat(10 * FloatDen)])

AllComparisons == {"Equals", "NotEquals"} \cup Comparisons

\* an Int field against the Float of the same number, a Float field against
\* the Int of the same number, and both against their own variant
\* (score.current is 10 and timer.percent_remaining is 100.0 on entry)
MixedStatePredicates ==
    {PCmp(op, "score.current", v) : op \in AllComparisons,
                                    v \in {VFloat(10 * FloatDen), VInt(10)}}
        \cup {PCmp(op, "timer.percent_remaining", v) :
                    op \in AllComparisons, v \in {VInt(100), VFloat(100 * FloatDen)}}
MixedItemPredicates ==
    {PCmp(op, "value", v) : op \in AllComparisons, v \in {VFloat(10 * FloatDen), VInt(10)}}
MixedEffects ==
    {Decide(p) : p \in MixedStatePredicates}
        \cup {<<OpFilter("items", q)>> : q \in MixedItemPredicates}

\* children of an And or an Or: true and false on entry (the score is 10),
\* an unknown path, a comparison of a Bool
ShortChildren ==
    {PEquals("score.current", VInt(10)), PEquals("score.current", VInt(999)),
     PCmp("LessThan", "bogus.path", VInt(5)),
     PCmp("LessThan", "timer.paused", VInt(5))}
ShortLists ==
    (ShortChildren \X ShortChildren)
        \cup {<<PEquals("score.current", VInt(10)), a, b>> : a, b \in ShortChildren}
        \cup {<<PEquals("score.current", VInt(999)), a, b>> : a, b \in ShortChildren}
ShortCircuitEffects ==
    {Decide(PAnd(l)) : l \in ShortLists} \cup {Decide(POr(l)) : l \in ShortLists}

\* a predicate on `$counter` or on var.counter, after operations that bind
\* the context variable `counter`, bind it twice, or write the GameState
\* variable var.counter
BindValues == {VInt(5), VInt(2), VStr("5")}
Binders ==
    {<<>>}
        \cup {<<OpSetVariable("counter", v)>> : v \in BindValues}
        \cup {<<OpSetVariable("counter", VInt(1)), OpSetVariable("counter", v)>> :
                    v \in BindValues}
        \cup {<<OpSet("var.counter", v)>> : v \in BindValues}
VarRefPredicates ==
    {PCmp(op, f, VInt(5)) : op \in {"Equals", "NotEquals", "GreaterOrEqual"},
                            f \in {"$counter", "var.counter"}}
VarRefEffects == {b \o Decide(p) : b \in Binders, p \in VarRefPredicates}

PredEffects ==
    VarRefEffects \cup StateCmpEffects \cup UnimplementedEffects \cup ItemCmpEffects \cup BoolEffects
        \cup MixedEffects \cup ShortCircuitEffects \cup ItemEqEffects

InitPred ==
    /\ world = BaseWorld
    /\ gs_vars = EmptyMap
    /\ collections \in {[p \in {"items"} |-> s] :
                            s \in {<<ItemA, ItemB>>, <<ItemT, ItemC, ItemB>>,
                                   <<ItemF, ItemA, ItemF>>}}
    /\ ctx \in {EmptyMap, [k \in {"x"} |-> VStr("abc")], [k \in {"x"} |-> VInt(8)]}
    /\ event_listeners = EmptyMap
    /\ stack = <<>>
    /\ result = Pending
    /\ call = Entry(<<>>)
    /\ log = <<>>
    /\ calls = 0

CallPred == \E ops \in PredEffects : ExecuteEffect(ops)

NextPred ==
    \/ CallPred
    \/ ListReturn
    \/ IfCondition \/ Filter
    \/ Add \/ SetVariable \/ Set

SpecPred == InitPred /\ [][NextPred]_vars

(***************************************************************************)
(* Value and flag operations on their own: worlds with and without the     *)
(* timer and score resources, a GameState variable `x` of every variant.   *)
(***************************************************************************)
\* a 3 s timer, half a second of which has elapsed
ShortTimerWorld == [BaseWorld EXCEPT !.duration = 3 * TicksPerSec, !.elapsed = 1]
\* a World without GameTimer and Score
BareWorld == [BaseWorld EXCEPT !.has_timer = FALSE, !.has_score = FALSE]
\* the timer paused
PausedWorld == [BaseWorld EXCEPT !.paused = TRUE, !.timer_paused = TRUE]
WorldInputs == {BaseWorld, ShortTimerWorld, BareWorld, PausedWorld}

VarValues == {VInt(7), VFloat(5), VFloat(4), VBool(TRUE), VStr("seven"), VNull}
VarInputs == {EmptyMap} \cup {[k \in {"x"} |-> v] : v \in VarValues}

NumericPaths == {"timer.remaining", "score.current", "score.passing_grade", "var.x"}
Amounts == {-5, -1, 0, 1, 4, MaxI32, MinI32}

\* Add(P, a) followed by Subtract(P, a)
RoundTripEffects == {<<OpAdd(P, a), OpSubtract(P, a)>> : P \in NumericPaths, a \in Amounts}

FlagPaths == {"timer.paused", "var.x"}
\* SetFlag(F, v) followed by ToggleFlag(F), and ToggleFlag(F) twice
FlagEffects ==
    {<<OpSetFlag(F, v), OpToggleFlag(F)>> : F \in FlagPaths, v \in BOOLEAN}
        \cup {<<OpToggleFlag(F), OpToggleFlag(F)>> : F \in FlagPaths}

\* paths GameState does not recognise, and a variable that is never bound
UnknownPaths == {"bogus.path", "user.name", "nowhere"}
UnboundVar == "var.counter"

\* the mutators on an unknown path, the get-transform-set ones also on the
\* unbound variable
UnknownPathOps ==
    {OpAdd(P, a) : P \in UnknownPaths \cup {UnboundVar}, a \in {1, MinI32}}
        \cup {OpSubtract(P, a) : P \in UnknownPaths \cup {UnboundVar},
                                  a \in {1, MaxI32, MinI32}}
        \cup {OpMultiply(P, 3) : P \in UnknownPaths \cup {UnboundVar}}
        \cup {OpToggleFlag(P) : P \in UnknownPaths \cup {UnboundVar}}
        \cup {OpSet(P, v) : P \in UnknownPaths, v \in {VInt(1), VNull}}

\* state-level comparisons on such a path
UnknownPathPredicates ==
    {PCmp(op, P, VInt(1)) : op \in Comparisons, P \in UnknownPaths \cup {UnboundVar}}
        \cup {PEquals(P, VInt(1)) : P \in UnknownPaths \cup {UnboundVar}}
        \cup {PNotEquals(P, VInt(1)) : P \in UnknownPaths \cup {UnboundVar}}

UnknownPathEffects ==
    {<<op>> : op \in UnknownPathOps}
        \cup {<<OpIfCondition(c, <<MarkAdd>>, None)>> : c \in UnknownPathPredicates}

\* SetFlag on an unknown path
UnknownFlagEffects == {<<OpSetFlag(P, b)>> : P \in UnknownPaths, b \in BOOLEAN}

\* arithmetic on a path that holds a Bool, or on var.x whatever it holds
NonNumberEffects ==
    {<<OpAdd(P, a)>> : P \in {"timer.paused", "var.x"}, a \in {1, -3}}
        \cup {<<OpSubtract(P, a)>> : P \in {"timer.paused", "var.x"}, a \in {1, MinI32}}
        \cup {<<OpMultiply(P, f)>> : P \in {"timer.paused", "var.x"}, f \in {0, 3}}

\* the paths GameState::get reads and GameState::set does not recognise
ReadOnlyPaths ==
    {"timer.elapsed", "timer.percent_remaining", "cards.slots.max", "cards.slots.occupied"}

\* one mutator on a read-only path
ReadOnlyEffects ==
    {<<OpSet(P, v)>> : P \in ReadOnlyPaths, v \in {VInt(3), VFloat(3), VBool(TRUE)}}
        \cup {<<OpAdd(P, a)>> : P \in ReadOnlyPaths, a \in {-5, 0, 1, MaxI32}}
        \cup {<<OpSubtract(P, a)>> : P \in ReadOnlyPaths, a \in {-5, 1, MinI32}}
        \cup {<<OpMultiply(P, f)>> : P \in ReadOnlyPaths, f \in {0, 1, 3}}
        \cup {<<OpToggleFlag(P)>> : P \in ReadOnlyPaths}
ReadOnlyFlagEffects == {<<OpSetFlag(P, b)>> : P \in ReadOnlyPaths, b \in BOOLEAN}

ValueEffects ==
    RoundTripEffects \cup FlagEffects \cup UnknownPathEffects \cup NonNumberEffects
        \cup ReadOnlyEffects

InitVal ==
    /\ world \in WorldInputs
    /\ gs_vars \in VarInputs
    /\ collections = [p \in {"items"} |-> <<ItemA, ItemB>>]
    /\ ctx = EmptyMap
    /\ event_listeners = EmptyMap
    /\ stack = <<>>
    /\ result = Pending
    /\ call = Entry(<<>>)
    /\ log = <<>>
    /\ calls = 0

\* an amount at an end of the i32 range
UsesExtremeAmount(ops) ==
    \E j \in 1..Len(ops) :
        ops[j].type \in {"Add", "Subtract"} /\ ops[j].amount \in {MaxI32, MinI32}

\* the amounts at the ends of the i32 range are given to a fresh state only,
\* and no call follows them: the numbers held at the start of a call are small
CallVal ==
    \/ \E ops \in ValueEffects :
            /\ calls > 0 => ~UsesExtremeAmount(ops) /\ ~UsesExtremeAmount(call.ops)
            /\ ExecuteEffect(ops)
    \/ \E ops \in UnknownFlagEffects \cup ReadOnlyFlagEffects :
            /\ calls > 0 => ~UsesExtremeAmount(call.ops)
            /\ ExecuteEffect(ops)

NextVal ==
    \/ CallVal
    \/ ListReturn
    \/ Add \/ Subtract
    \/ SetFlag \/ ToggleFlag
    \/ Multiply \/ Set
    \/ IfCondition

SpecVal == InitVal /\ [][NextVal]_vars

(***************************************************************************)
(* Failures inside bodies: an operation that fails in the middle of a      *)
(* branch, a loop body or a listener body, alone and one body inside       *)
(* another, with operations, iterations and listeners still pending.       *)
(***************************************************************************)
BodyKinds == {"then", "else", "while", "foreach", "listener"}
BodyFailures == {OpAdd("bogus.path", 1), OpWhile(PAnd(<<>>), <<>>, Some(0))}

\* a mark, the failing operation, a mark that must not run
FailingBody(bad) == <<MarkAdd, bad, MarkAdd>>

\* the operations that run `body` as a body of the given kind; a second
\* listener of the same event is registered behind the one with `body`
Wrap(kind, body, event) ==
    CASE kind = "then" -> <<OpIfCondition(PAnd(<<>>), body, Some(<<MarkAdd>>))>>
      [] kind = "else" -> <<OpIfCondition(POr(<<>>), <<MarkAdd>>, Some(body))>>
      [] kind = "while" -> <<OpWhile(PAnd(<<>>), body, Some(MaxIter))>>
      [] kind = "foreach" -> <<OpForEach("items", body)>>
      [] kind = "listener" ->
            <<OpOnEvent(event, body), OpOnEvent(event, <<MarkAdd>>),
              OpEmitEvent(event, None)>>

\* a mark, the body, a mark that must not run
Around(kind, body, event) == <<MarkAdd>> \o Wrap(kind, body, event) \o <<MarkAdd>>

AbortOne(k, bad) == Around(k, FailingBody(bad), "boom")
AbortTwo(k1, k2, bad) == Around(k1, Around(k2, FailingBody(bad), "bang"), "boom")

AbortEffects ==
    {AbortOne(k, bad) : k \in BodyKinds, bad \in BodyFailures}
        \cup {AbortTwo(k[1], k[2], bad) : k \in BodyKinds \X BodyKinds, bad \in BodyFailures}

\* the collection holds one or two items: every ForEach body runs
InitAbort ==
    /\ world = BaseWorld
    /\ gs_vars = EmptyMap
    /\ collections \in {[p \in {"items"} |-> s] : s \in {<<ItemA>>, <<ItemB, ItemA>>}}
    /\ ctx \in ContextInputs
    /\ event_listeners = EmptyMap
    /\ stack = <<>>
    /\ result = Pending
    /\ call = Entry(<<>>)
    /\ log = <<>>
    /\ calls = 0

\* the same shapes with a body that does not fail
CompletingEffects == {Around(k, <<MarkAdd>>, "boom") : k \in BodyKinds}

CallAbort == \E ops \in AbortEffects \cup CompletingEffects : ExecuteEffect(ops)

NextAbort ==
    \/ CallAbort
    \/ ListReturn
    \/ Add
    \/ IfCondition \/ While \/ WhileTest \/ ForEach \/ ForEachNext
    \/ OnEvent \/ EmitEvent \/ EmitNext

SpecAbort == InitAbort /\ [][NextAbort]_vars

(***************************************************************************)
(* While on its own: a predicate that is true for the first n evaluations  *)
(* (the body adds 1 to a score that starts at 10), against every bound.    *)
(***************************************************************************)
TrueFor == 0..(MaxIter + 1)

\* true while fewer than n bodies have run
ScoreBelow(n) == PCmp("LessThan", "score.current", VInt(BaseWorld.current + n))

CountedLoop(n, m) == <<OpWhile(ScoreBelow(n), <<MarkAdd>>, m), MarkSetVar>>
CountedLoops == {CountedLoop(n, m) : n \in TrueFor, m \in MaxInputs}

\* a predicate that cannot be evaluated, against every bound
BrokenLoop(m) == <<OpWhile(PEquals("bogus.path", VInt(1)), <<MarkAdd>>, m), MarkSetVar>>
BrokenLoops == {BrokenLoop(m) : m \in MaxInputs}

InitLoop ==
    /\ world = BaseWorld
    /\ gs_vars = EmptyMap
    /\ collections = EmptyMap
    /\ ctx \in ContextInputs
    /\ event_listeners = EmptyMap
    /\ stack = <<>>
    /\ result = Pending
    /\ call = Entry(<<>>)
    /\ log = <<>>
    /\ calls = 0

CallLoop == \E ops \in CountedLoops \cup BrokenLoops : ExecuteEffect(ops)

NextLoop ==
    \/ CallLoop
    \/ ListReturn
    \/ While \/ WhileTest
    \/ Add \/ SetVariable

SpecLoop == InitLoop /\ [][NextLoop]_vars

(***************************************************************************)
(* execute_operation (effect_executor/mod.rs): the operation is offered to *)
(* six handlers in turn; each answers None for the variants it has no arm  *)
(* for, and the first answer that is not None is returned.                 *)
(***************************************************************************)
\* the variants of EffectOperation (effect.rs)
OperationTypes ==
    {"Add", "Subtract", "Multiply", "Set", "Filter", "Remove", "Append", "Insert",
     "SetFlag", "ToggleFlag", "IfCondition", "ForEach", "While",
     "OnEvent", "EmitEvent", "ScheduleOperation", "SetVariable", "GetVariable"}

\* the variants each handler has an arm for
value_ops_claims == {"Add", "Subtract", "Multiply", "Set"}
flag_ops_claims == {"SetFlag", "ToggleFlag"}
variable_ops_claims == {"SetVariable", "GetVariable"}
\* Mutant of event_ops_claims: the arm of ScheduleOperation is missing.
event_ops_claims_two == {"OnEvent", "EmitEvent"}
event_ops_claims == {"OnEvent", "EmitEvent", "ScheduleOperation"}
collection_ops_claims == {"Filter", "Remove", "Append", "Insert"}
control_flow_claims == {"IfCondition", "While", "ForEach"}

\* the handlers in the order execute_operation tries them
HandlerChain == <<"value", "flag", "variable", "event", "collection", "control_flow">>
ClaimsOf(handler) ==
    CASE handler = "value" -> value_ops_claims
      [] handler = "flag" -> flag_ops_claims
      [] handler = "variable" -> variable_ops_claims
      [] handler = "event" -> event_ops_claims
      [] handler = "collection" -> collection_ops_claims
      [] handler = "control_flow" -> control_flow_claims

RECURSIVE TryFrom(_, _)
\* the `if let Some(result) = ..` chain from the k-th handler on
TryFrom(op, k) ==
    IF k > Len(HandlerChain) THEN "fall_through"
    ELSE IF op.type \in ClaimsOf(HandlerChain[k]) THEN HandlerChain[k]
    ELSE TryFrom(op, k + 1)

\* the handler whose answer execute_operation returns
execute_operation_handler(op) == TryFrom(op, 1)

\* the final `Ok(())` of execute_operation: the operation is skipped
FallThrough ==
    /\ Continue(Advanced)
    /\ log' = Append(log, [ev |-> "skip", d |-> Len(stack), i |-> Top.i,
                           type |-> CurOp.type])
    /\ UNCHANGED <<world, gs_vars, collections, ctx, event_listeners, call, calls>>

\* execute_operation: the arm of the handler that claimed the operation
ExecuteOperation ==
    /\ AtOp
    /\ LET handler == execute_operation_handler(CurOp) IN
       CASE handler = "value" -> Add \/ Subtract \/ Multiply \/ Set
         [] handler = "flag" -> SetFlag \/ ToggleFlag
         [] handler = "variable" -> SetVariable \/ GetVariable
         [] handler = "event" -> OnEvent \/ EmitEvent \/ ScheduleOperation
         [] handler = "collection" -> Filter \/ Remove \/ AppendOp \/ Insert
         [] handler = "control_flow" -> IfCondition \/ While \/ ForEach
         [] OTHER -> FallThrough

\* one effect with every variant, none of which fails, and effects that nest
\* the variants in a branch, a loop and a listener
EveryVariant ==
    <<OpAdd("score.current", 1), OpSubtract("score.current", 1),
      OpMultiply("score.current", FloatDen), OpSet("var.x", VInt(1)),
      OpSetFlag("timer.paused", TRUE), OpToggleFlag("timer.paused"),
      OpSetVariable("x", VInt(7)), OpGetVariable("x"),
      OpOnEvent("scored", <<MarkAdd>>), OpEmitEvent("scored", None),
      OpScheduleOperation(5, <<MarkAdd>>),
      OpAppend("items", ItemNew), OpInsert("items", 0, ItemNew),
      OpFilter("items", PEquals("correct", VBool(TRUE))),
      OpRemove("items", 1, None, None),
      OpIfCondition(PAnd(<<>>), <<MarkAdd>>, None),
      OpWhile(PCmp("LessThan", "score.current", VInt(12)), <<MarkAdd>>, None),
      OpForEach("items", <<MarkAdd>>)>>
DispatchCatalogue ==
    <<EveryVariant,
      <<OpIfCondition(PAnd(<<>>), EveryVariant, None)>>,
      <<OpForEach("items", EveryVariant)>>,
      <<OpOnEvent("all", EveryVariant), OpEmitEvent("all", None)>>,
      <<OpWhile(PAnd(<<>>), SubSeq(EveryVariant, 1, 11), Some(1))>>>>

InitDispatch ==
    /\ world \in {BaseWorld, PausedWorld}
    /\ gs_vars = EmptyMap
    /\ collections \in CollectionInputs
    /\ ctx \in ContextInputs
    /\ event_listeners = EmptyMap
    /\ stack = <<>>
    /\ result = Pending
    /\ call = Entry(<<>>)
    /\ log = <<>>
    /\ calls = 0

CallDispatch == \E k \in 1..Len(DispatchCatalogue) : ExecuteEffect(DispatchCatalogue[k])

NextDispatch ==
    \/ CallDispatch
    \/ ListReturn
    \/ ExecuteOperation
    \/ EmitNext \/ WhileTest \/ ForEachNext

SpecDispatch == InitDispatch /\ [][NextDispatch]_vars

(***************************************************************************)
(* The single-match executor (effect_executor.rs): execute_operation is    *)
(* one `match` over the 18 variants.  Its arms for the value, flag,        *)
(* variable and collection operations, for ScheduleOperation and ForEach,  *)
(* and its While and ForEach loops make the same calls as the handlers     *)
(* above.  Its OnEvent and EmitEvent arms work on the registry directly    *)
(* and its resolve_value takes the `$` off with starts_with and a slice.   *)
(***************************************************************************)
\* `field.starts_with('$')` and `&field[1..]`, over the strings of the inputs
StartsWithDollar(field) ==
    field \in {"$x", "$counter", "$item", "$index", "$removed", "$event.points"}
AfterFirstChar(field) ==
    CASE field = "$x" -> "x"
      [] field = "$counter" -> "counter"
      [] field = "$item" -> "item"
      [] field = "$index" -> "index"
      [] field = "$removed" -> "removed"
      [] field = "$event.points" -> "event.points"
      [] OTHER -> field

\* Mutant of SingleMatch_resolve_value: the `$` stays on the variable name.
SingleMatch_resolve_value_keeps_dollar(field, c, gsv, w) ==
    IF StartsWithDollar(field) /\ field \in DOMAIN c
    THEN Ok(c[field])
    ELSE LET got == GameState_get(field, gsv, w) IN
         IF got.some THEN Ok(got.v) ELSE Err(InvalidPath(field))

SingleMatch_resolve_value(field, c, gsv, w) ==
    IF StartsWithDollar(field) /\ AfterFirstChar(field) \in DOMAIN c
    THEN Ok(c[AfterFirstChar(field)])
    ELSE LET got == GameState_get(field, gsv, w) IN
         IF got.some THEN Ok(got.v) ELSE Err(InvalidPath(field))

RECURSIVE SingleMatch_evaluate_predicate(_, _, _, _)
RECURSIVE SingleMatch_EvalAll(_, _, _, _, _)
RECURSIVE SingleMatch_EvalAny(_, _, _, _, _)

SingleMatch_EvalAll(preds, i, c, gsv, w) ==
    IF i > Len(preds) THEN Ok(TRUE)
    ELSE LET r == SingleMatch_evaluate_predicate(preds[i], c, gsv, w) IN
         IF ~r.ok THEN r
         ELSE IF ~r.v THEN Ok(FALSE)
         ELSE SingleMatch_EvalAll(preds, i + 1, c, gsv, w)

SingleMatch_EvalAny(preds, i, c, gsv, w) ==
    IF i > Len(preds) THEN Ok(FALSE)
    ELSE LET r == SingleMatch_evaluate_predicate(preds[i], c, gsv, w) IN
         IF ~r.ok THEN r
         ELSE IF r.v THEN Ok(TRUE)
         ELSE SingleMatch_EvalAny(preds, i + 1, c, gsv, w)

SingleMatch_evaluate_predicate(p, c, gsv, w) ==
    CASE p.type = "Equals" ->
            LET current == SingleMatch_resolve_value(p.field, c, gsv, w) IN
            IF current.ok THEN Ok(ValueEq(current.v, p.value)) ELSE current
      [] p.type = "NotEquals" ->
            LET current == SingleMatch_resolve_value(p.field, c, gsv, w) IN
            IF current.ok THEN Ok(~ValueEq(current.v, p.value)) ELSE current
      [] p.type \in Comparisons ->
            LET current == SingleMatch_resolve_value(p.field, c, gsv, w) IN
            IF current.ok THEN Executor_compare_values(current.v, p.value, p.type)
            ELSE current
      [] p.type = "And" -> SingleMatch_EvalAll(p.predicates, 1, c, gsv, w)
      [] p.type = "Or" -> SingleMatch_EvalAny(p.predicates, 1, c, gsv, w)
      [] p.type = "Not" -> Negate(SingleMatch_evaluate_predicate(p.predicate, c, gsv, w))
      [] p.type = "HasTag" -> NotYetImplemented
      [] p.type = "IsType" -> NotYetImplemented
      [] p.type = "Contains" -> NotYetImplemented
      [] p.type = "Expression" -> NotYetImplemented

\* the IfCondition arm
SingleMatch_IfCondition ==
    /\ AtOp /\ CurOp.type = "IfCondition"
    /\ LET r == SingleMatch_evaluate_predicate(CurOp.condition, ctx, gs_vars, world) IN
       IF ~r.ok
       THEN /\ Propagate(r.err)
            /\ log' = log \o <<LogOp, LogPred(r)>>
       ELSE LET b == Branch(CurOp, r.v) IN
            IF b.some
            THEN /\ Continue(Append(Advanced, b.v))
                 /\ log' = log \o <<LogOp, LogPred(r), LogBody(b.v.role, Len(stack))>>
            ELSE /\ Continue(Advanced)
                 /\ log' = log \o <<LogOp, LogPred(r)>>
    /\ UNCHANGED <<world, gs_vars, collections, ctx, event_listeners, call, calls>>

\* the While arm up to its loop: `max_iterations.unwrap_or(100)`, `iterations = 0`
SingleMatch_While ==
    /\ AtOp /\ CurOp.type = "While"
    /\ Continue(Append(Advanced,
            WhileFrame(CurOp, IF CurOp.max_iterations.some
                              THEN CurOp.max_iterations.v ELSE 100)))
    /\ log' = Append(log, LogOp)
    /\ UNCHANGED <<world, gs_vars, collections, ctx, event_listeners, call, calls>>

\* one turn of the `while self.evaluate_predicate(..)?` loop, up to the body
SingleMatch_WhileTest ==
    /\ Running /\ Top.kind = "while"
    /\ LET r == SingleMatch_evaluate_predicate(Top.condition, ctx, gs_vars, world) IN
       IF ~r.ok
       THEN /\ Propagate(r.err)
            /\ log' = Append(log, LogPred(r))
       ELSE IF ~r.v
       THEN /\ Continue(Pop(stack))
            /\ log' = Append(log, LogPred(r))
       ELSE IF Top.iterations >= Top.max
       THEN /\ Propagate(MaxIterationsReached)
            /\ log' = Append(log, LogPred(r))
       ELSE /\ Continue(Append(stack, ListFrame(Top.operations, "while_body")))
            /\ log' = log \o <<LogPred(r), LogBody("while_body", Len(stack))>>
    /\ UNCHANGED <<world, gs_vars, collections, ctx, event_listeners, call, calls>>

\* the OnEvent arm: `entry(event).or_insert_with(Vec::new).push(operations)`
SingleMatch_OnEvent ==
    /\ AtOp /\ CurOp.type = "OnEvent"
    /\ LET entry == IF CurOp.event \in DOMAIN event_listeners
                    THEN event_listeners[CurOp.event] ELSE <<>>
       IN  event_listeners' = Put(event_listeners, CurOp.event,
                                  Append(entry, CurOp.operations))
    /\ Continue(Advanced)
    /\ log' = Append(log, LogOp)
    /\ UNCHANGED <<world, gs_vars, collections, ctx, call, calls>>

\* the EmitEvent arm: `self.event_listeners.get(event)`, the event data, then
\* the loop over `listeners.clone()`
SingleMatch_EmitEvent ==
    /\ AtOp /\ CurOp.type = "EmitEvent"
    /\ Len(stack) < MaxDepth
    /\ IF CurOp.event \in DOMAIN event_listeners
       THEN /\ ctx' = IF CurOp.data.some THEN MergeEventData(ctx, CurOp.data.v) ELSE ctx
            /\ Continue(Append(Advanced, EmitFrame(event_listeners[CurOp.event])))
       ELSE /\ ctx' = ctx
            /\ Continue(Advanced)
    /\ log' = Append(log, LogOp)
    /\ UNCHANGED <<world, gs_vars, collections, event_listeners, call, calls>>

\* execute_operation: the arm of the variant
SingleMatch_execute_operation ==
    /\ AtOp
    /\ CASE CurOp.type = "Add" -> Add
         [] CurOp.type = "Subtract" -> Subtract
         [] CurOp.type = "Multiply" -> Multiply
         [] CurOp.type = "Set" -> Set
         [] CurOp.type = "SetFlag" -> SetFlag
         [] CurOp.type = "ToggleFlag" -> ToggleFlag
         [] CurOp.type = "IfCondition" -> SingleMatch_IfCondition
         [] CurOp.type = "While" -> SingleMatch_While
         [] CurOp.type = "SetVariable" -> SetVariable
         [] CurOp.type = "GetVariable" -> GetVariable
         [] CurOp.type = "OnEvent" -> SingleMatch_OnEvent
         [] CurOp.type = "EmitEvent" -> SingleMatch_EmitEvent
         [] CurOp.type = "ScheduleOperation" -> ScheduleOperation
         [] CurOp.type = "Filter" -> Filter
         [] CurOp.type = "Remove" -> Remove
         [] CurOp.type = "Append" -> AppendOp
         [] CurOp.type = "Insert" -> Insert
         [] CurOp.type = "ForEach" -> ForEach

(***************************************************************************)
(* Both executors on the same operation trees: every variant, alone and    *)
(* nested, variable references in conditions, listeners and event data,    *)
(* and a failing operation.  Each step is taken by either executor.        *)
(***************************************************************************)
EventPoints == [k \in {"points"} |-> VInt(3)]
AgreementCatalogue ==
    DispatchCatalogue \o
    <<<<OpIfCondition(PEquals("$x", VInt(8)), <<MarkAdd>>,
                      Some(<<OpSetVariable("branch", VStr("else"))>>))>>,
      <<OpSetVariable("x", VInt(8)),
        OpWhile(PAnd(<<PEquals("$x", VInt(8)),
                       PCmp("LessThan", "score.current", VInt(12))>>), <<MarkAdd>>, None)>>,
      <<OpWhile(PCmp("LessThan", "$x", VInt(9)), <<MarkAdd>>, Some(2)), MarkAdd>>,
      <<OpOnEvent("scored", <<MarkAdd>>),
        OpOnEvent("scored", <<OpOnEvent("scored", <<MarkAdd>>)>>),
        OpEmitEvent("scored", Some(EventPoints)),
        OpIfCondition(PEquals("$event.points", VInt(3)), <<MarkAdd>>, None),
        OpEmitEvent("scored", None),
        OpEmitEvent("quiet", Some(EventPoints))>>,
      <<MarkAdd, OpAdd("bogus.path", 1), MarkAdd>>>>

InitAgreement ==
    /\ world \in {BaseWorld, PausedWorld}
    /\ gs_vars = EmptyMap
    /\ collections \in CollectionInputs
    /\ ctx \in ContextInputs \cup {[k \in {"x"} |-> VInt(8)]}
    /\ event_listeners = EmptyMap
    /\ stack = <<>>
    /\ result = Pending
    /\ call = Entry(<<>>)
    /\ log = <<>>
    /\ calls = 0

CallAgreement == \E k \in 1..Len(AgreementCatalogue) : ExecuteEffect(AgreementCatalogue[k])

NextAgreement ==
    \/ CallAgreement
    \/ ListReturn
    \/ ExecuteOperation
    \/ SingleMatch_execute_operation
    \/ EmitNext \/ ForEachNext
    \/ WhileTest
    \/ SingleMatch_WhileTest

SpecAgreement == InitAgreement /\ [][NextAgreement]_vars

(***************************************************************************)
(* Several collections side by side: "items", "Items" and "discard", each  *)
(* present or absent, and operations addressed to one of them.             *)
(***************************************************************************)
PathNames == {"items", "Items", "discard"}
PathContents(p) ==
    CASE p = "items" -> <<ItemA, ItemB>>
      [] p = "Items" -> <<ItemB, ItemC>>
      [] OTHER -> <<ItemB>>
PathInputs == {[p \in D |-> PathContents(p)] : D \in SUBSET PathNames}

PathOps ==
    {OpFilter(p, PEquals("correct", VBool(TRUE))) : p \in PathNames}
        \cup {OpRemove(p, 1, None, None) : p \in PathNames}
        \cup {OpAppend(p, ItemNew) : p \in PathNames}
        \cup {OpInsert(p, 0, ItemNew) : p \in PathNames}
\* one operation, and two operations on different paths
PathEffects ==
    {<<a>> : a \in PathOps}
        \cup {<<q[1], q[2]>> : q \in {r \in PathOps \X PathOps : r[1].target # r[2].target}}

InitPaths ==
    /\ world = BaseWorld
    /\ gs_vars \in {EmptyMap, [k \in {"x"} |-> VInt(7)]}
    /\ collections \in PathInputs
    /\ ctx = EmptyMap
    /\ event_listeners = EmptyMap
    /\ stack = <<>>
    /\ result = Pending
    /\ call = Entry(<<>>)
    /\ log = <<>>
    /\ calls = 0

CallPaths == \E ops \in PathEffects : ExecuteEffect(ops)

NextPaths ==
    \/ CallPaths
    \/ ListReturn
    \/ Filter \/ Remove \/ AppendOp \/ Insert

SpecPaths == InitPaths /\ [][NextPaths]_vars

(***************************************************************************)
(* GameState's variables reached both ways: the owner of the GameState     *)
(* calls set_variable and clear_variables between two execute_effect       *)
(* calls, and effects read and write the path var.<name>.                  *)
(***************************************************************************)
VarNames == {"x", "counter"}
StoredValues == {VInt(1), VInt(2)}
\* the path an effect writes to address the variable `name`
VarPath(name) == IF name = "x" THEN "var.x" ELSE "var.counter"

PathWriteEffects ==
    {<<OpSet(VarPath(n), v)>> : n \in VarNames, v \in StoredValues}
        \cup {<<OpAdd(VarPath(n), 1)>> : n \in VarNames}
PathReadEffects ==
    {<<OpIfCondition(PEquals(VarPath(n), v), <<MarkAdd>>, None)>> :
        n \in VarNames, v \in StoredValues}
\* an attempt to address the key "var.x" of the map through a path
NestedPathEffects == {<<OpSet("var.var.x", VInt(1))>>, <<OpAdd("var.var.x", 1)>>}
VarEffects == PathWriteEffects \cup PathReadEffects \cup NestedPathEffects

\* the calls the owner made on the GameState since the last execute_effect
MaxOwnerSteps == 2
OwnerSteps == Cardinality({j \in 1..Len(log) : log[j].d = 0})

SetVariableByOwner ==
    /\ ~Running
    /\ OwnerSteps < MaxOwnerSteps
    /\ \E name \in VarNames, value \in StoredValues :
            /\ gs_vars' = GameState_set_variable(name, value, gs_vars)
            /\ log' = Append(log, [ev |-> "set_variable", d |-> 0,
                                   name |-> name, value |-> value])
    /\ UNCHANGED <<world, collections, ctx, event_listeners, stack, result, call, calls>>

ClearVariablesByOwner ==
    /\ ~Running
    /\ OwnerSteps < MaxOwnerSteps
    /\ gs_vars' = GameState_clear_variables(gs_vars)
    /\ log' = Append(log, [ev |-> "clear_variables", d |-> 0])
    /\ UNCHANGED <<world, collections, ctx, event_listeners, stack, result, call, calls>>

InitVars ==
    /\ world = BaseWorld
    /\ gs_vars = EmptyMap
    /\ collections = EmptyMap
    /\ ctx = EmptyMap
    /\ event_listeners = EmptyMap
    /\ stack = <<>>
    /\ result = Pending
    /\ call = Entry(<<>>)
    /\ log = <<>>
    /\ calls = 0

CallVars == \E ops \in VarEffects : ExecuteEffect(ops)

NextVars ==
    \/ CallVars
    \/ SetVariableByOwner
    \/ ClearVariablesByOwner
    \/ ListReturn
    \/ Set \/ Add
    \/ IfCondition

SpecVars == InitVars /\ [][NextVars]_vars

(***************************************************************************)
(* Arithmetic on timer.remaining: timers with and without elapsed time,    *)
(* running and paused.                                                     *)
(***************************************************************************)
\* Set, Add, Subtract and Multiply on timer.remaining, with results below,
\* at and above zero; one Set that fails
TimerOps ==
    {OpSet("timer.remaining", v) : v \in {VInt(-4), VInt(0), VInt(5), VStr("seven")}}
        \cup {OpAdd("timer.remaining", a) : a \in {-5, 4}}
        \cup {OpSubtract("timer.remaining", a) : a \in {-5, 4}}
        \cup {OpMultiply("timer.remaining", f) : f \in {-1 * FloatDen, 0, 1, 2 * FloatDen}}
TimerEffects ==
    {<<a>> : a \in TimerOps} \cup {<<a, b>> : a, b \in TimerOps}
        \cup {<<OpSet("timer.remaining", VInt(-4)), OpAdd("timer.remaining", 4),
                OpMultiply("timer.remaining", -1 * FloatDen),
                OpSubtract("timer.remaining", -5)>>}

InitTimer ==
    /\ world \in {BaseWorld, ShortTimerWorld, PausedWorld}
    /\ gs_vars = EmptyMap
    /\ collections = [p \in {"items"} |-> <<ItemA, ItemB>>]
    /\ ctx = EmptyMap
    /\ event_listeners = EmptyMap
    /\ stack = <<>>
    /\ result = Pending
    /\ call = Entry(<<>>)
    /\ log = <<>>
    /\ calls = 0

CallTimer == \E ops \in TimerEffects : ExecuteEffect(ops)

NextTimer ==
    \/ CallTimer
    \/ ListReturn
    \/ Set \/ Add \/ Subtract \/ Multiply

SpecTimer == InitTimer /\ [][NextTimer]_vars

(***************************************************************************)
(* Properties.                                                             *)
(***************************************************************************)
Finished == ~Running /\ calls > 0 /\ result # Pending

\* the operations the executor dispatched from the frame at depth d, in order
OpsRunAt(d) == SelectSeq(log, LAMBDA e : e.ev = "op" /\ e.d = d)
\* the bodies started by the loop or branch whose frame is at depth d
BodiesAt(d, role) == SelectSeq(log, LAMBDA e : e.ev = "body" /\ e.d = d /\ e.role = role)
PredsAt(d) == SelectSeq(log, LAMBDA e : e.ev = "pred" /\ e.d = d)
ItersAt(d) == SelectSeq(log, LAMBDA e : e.ev = "iter" /\ e.d = d)

Count(ops, n, op) == Cardinality({j \in 1..n : ops[j] = op})

\* the first failing operation of a FailFastEffects list
FirstFailing(ops) == CHOOSE f \in 1..Len(ops) :
                        ops[f] \in FailingOps /\ \A j \in 1..(f - 1) : ops[j] \notin FailingOps

ErrorOf(op) ==
    CASE op.type = "Add" -> InvalidPath(op.target)
      [] op.type = "ToggleFlag" -> InvalidPath(op.flag)
      [] op.type = "While" -> MaxIterationsReached

ItemsOf(colls) == IF "items" \in DOMAIN colls THEN colls["items"] ELSE <<>>

\* C1: execute_effect runs the operations in list order and stops at the first
\* one that fails: at every moment the top-level operations dispatched so far
\* are operations 1..n of the list, in order; when the call has returned an
\* error the last of them is the failing one and the error is its error, no
\* later operation was dispatched, and what the operations before it did to
\* the score, the collection, the context and the listener registry is still
\* there; when it has returned Ok every operation was dispatched.
C1_StopsAtFirstError ==
    LET ops == call.ops
        run == OpsRunAt(1)
    IN  /\ Len(run) <= Len(ops)
        /\ \A j \in 1..Len(run) : run[j].i = j /\ run[j].type = ops[j].type
        /\ (Finished /\ result = RetOk) => Len(run) = Len(ops)
        /\ (Finished /\ ops \in FailFastEffects) =>
                LET f == FirstFailing(ops) IN
                /\ result = RetErr(ErrorOf(ops[f]))
                /\ Len(run) = f
                /\ world = [call.world EXCEPT
                                !.current = @ + Count(ops, f - 1, MarkAdd)]
                /\ gs_vars = call.gs_vars
                /\ ItemsOf(collections) =
                        ItemsOf(call.collections)
                            \o [j \in 1..Count(ops, f - 1, MarkAppend) |-> ItemNew]
                /\ ("items" \in DOMAIN collections) =
                        ("items" \in DOMAIN call.collections
                            \/ Count(ops, f - 1, MarkAppend) > 0)
                /\ ctx = IF Count(ops, f - 1, MarkSetVar) > 0
                         THEN Put(call.ctx, "x", VInt(7)) ELSE call.ctx
                /\ event_listeners =
                        LET n == Count(ops, f - 1, MarkOnEvent)
                            before == IF "scored" \in DOMAIN call.event_listeners
                                      THEN call.event_listeners["scored"] ELSE <<>>
                        IN  IF n > 0
                            THEN Put(call.event_listeners, "scored",
                                     before \o [j \in 1..n |-> <<MarkAdd>>])
                            ELSE call.event_listeners

\* a call that failed at its fifth operation, after all four marks
C1_Witness ==
    /\ Finished /\ call.ops \in FailFastEffects
    /\ result = RetErr(InvalidPath("bogus.path"))
    /\ Len(OpsRunAt(1)) = 5
    /\ world.current = call.world.current + 1
    /\ "scored" \in DOMAIN event_listeners
    /\ "x" \in DOMAIN ctx

\* the max_iterations a While was given, as the claim reads it
GivenMax(op) == IF op.max_iterations.some THEN op.max_iterations.v ELSE 100

\* a While, alone in its effect, whose body is empty or one MarkAdd (it cannot fail)
IsPlainLoop(ops) ==
    /\ Len(ops) = 1 /\ ops[1].type = "While"
    /\ ops[1].operations \in {<<>>, <<MarkAdd>>}

\* C2: a While whose predicate was true at every evaluation, with
\* max_iterations = m (100 when omitted) and a body that does not fail, has
\* failed with MaxIterationsReached after exactly m executions of its body
\* (m + 1 evaluations of the predicate), and the score holds the m additions
\* the m body executions made.
C2_MaxIterationsAfterM ==
    (/\ Finished /\ IsPlainLoop(call.ops)
     /\ \A k \in 1..Len(PredsAt(2)) : PredsAt(2)[k].r = Ok(TRUE))
    => LET m == GivenMax(call.ops[1]) IN
       /\ result = RetErr(MaxIterationsReached)
       /\ Len(BodiesAt(2, "while_body")) = m
       /\ Len(PredsAt(2)) = m + 1
       /\ world = [call.world EXCEPT
                    !.current = @ + m * Len(call.ops[1].operations)]
       /\ collections = call.collections /\ ctx = call.ctx
       /\ gs_vars = call.gs_vars /\ event_listeners = call.event_listeners

\* the loop without max_iterations has failed after 100 additions
C2_Witness ==
    /\ Finished /\ IsPlainLoop(call.ops)
    /\ call.ops[1].max_iterations = None
    /\ call.ops[1].condition = PEquals("score.passing_grade", VInt(6))
    /\ result = RetErr(MaxIterationsReached)
    /\ world.current = call.world.current + 100

RECURSIVE HasEmit(_)
\* whether an operation list contains an EmitEvent, at any depth
HasEmit(ops) ==
    \E j \in 1..Len(ops) :
        \/ ops[j].type = "EmitEvent"
        \/ /\ ops[j].type \in {"While", "ForEach", "OnEvent", "ScheduleOperation"}
           /\ HasEmit(ops[j].operations)
        \/ /\ ops[j].type = "IfCondition"
           /\ (HasEmit(ops[j].then) \/ (ops[j].else_.some /\ HasEmit(ops[j].else_.v)))

\* the frames of the While loops in progress whose body contains no EmitEvent
QuietLoops == {k \in 1..Len(stack) : stack[k].kind = "while" /\ ~HasEmit(stack[k].operations)}

\* a body execution of the loop at frame k is in progress
InBody(k) == IF k < Len(stack) THEN 1 ELSE 0

\* C3: every While whose body contains no EmitEvent terminates.  It never
\* starts more than max_iterations body executions; when it returns Ok its
\* predicate has just evaluated false, and when it is abandoned with an error
\* the call has failed; and a loop in progress eventually is no longer in
\* progress.
C3_WhileTerminates ==
    /\ [](\A k \in QuietLoops : stack[k].iterations + InBody(k) <= stack[k].max)
    /\ [][(Running /\ Top.kind = "while" /\ Len(stack) \in QuietLoops) =>
            \/ /\ stack' = Pop(stack)
               /\ evaluate_predicate(Top.condition, ctx, gs_vars, world) = Ok(FALSE)
            \/ /\ Len(stack') = Len(stack) + 1
               /\ Top.iterations < Top.max
            \/ /\ stack' = <<>>
               /\ result'.status = "Err"]_vars
    /\ ((QuietLoops # {}) ~> (QuietLoops = {}))

\* a loop that ran its body twice and returned Ok when its predicate turned false
C3_Witness ==
    /\ Finished /\ result = RetOk
    /\ call.ops[1].type = "While" /\ ~HasEmit(call.ops[1].operations)
    /\ Len(BodiesAt(2, "while_body")) = 2
    /\ PredsAt(2)[3].r = Ok(FALSE)

\* the effect is one ForEach over "items"
IsForEachCall == Len(call.ops) = 1 /\ call.ops[1].type = "ForEach"

RECURSIVE Rebinds(_)
\* whether an operation list itself assigns `item` or `index`: by a SetVariable
\* of that name or by a ForEach of its own, at any depth
Rebinds(ops) ==
    \E j \in 1..Len(ops) :
        \/ ops[j].type = "SetVariable" /\ ops[j].name \in {"item", "index"}
        \/ ops[j].type = "ForEach"
        \/ ops[j].type \in {"While"} /\ Rebinds(ops[j].operations)
        \/ /\ ops[j].type = "IfCondition"
           /\ (Rebinds(ops[j].then) \/ (ops[j].else_.some /\ Rebinds(ops[j].else_.v)))

\* `item` and `index` hold the element the ForEach at frame 2 is at, and its position
BoundToCurrent ==
    LET items == ItemsOf(call.collections) IN
    /\ stack[2].idx \in 1..Len(items)
    /\ ctx["item"] = items[stack[2].idx]
    /\ ctx["index"] = VInt(stack[2].idx - 1)

\* once the loop has returned Ok the body has run n times, `item` is the last
\* element and `index` is n - 1, and for n = 0 the context is as it was
ForEachAfter ==
    LET items == ItemsOf(call.collections)
        n == Len(items)
    IN  (Finished /\ result = RetOk) =>
            /\ Len(BodiesAt(2, "foreach_body")) = n
            /\ n > 0 => ctx["item"] = items[n] /\ ctx["index"] = VInt(n - 1)
            /\ n = 0 => ctx = call.ctx

IsSelfChanging == call.ops \in SelfChangingEffects

\* C5: ForEach iterates the snapshot taken when the loop starts.  While the
\* body appends to, inserts into, filters or removes from the collection being
\* iterated, the loop keeps the items the collection held on entry, each run
\* of the body starts with the next of those items in the original order, and
\* the loop returns Ok after exactly one run per such item; so it terminates.
C5_IteratesSnapshot ==
    /\ [](IsSelfChanging =>
            LET snap == ItemsOf(call.collections)
                iters == ItersAt(2)
            IN  /\ Len(stack) >= 2 => stack[2].items = snap
                /\ (Len(stack) = 3 /\ stack[3].i = 1) => BoundToCurrent
                /\ Len(iters) <= Len(snap)
                /\ \A k \in 1..Len(iters) :
                        iters[k].item = snap[k] /\ iters[k].index = k - 1
                /\ Finished =>
                        /\ result = RetOk
                        /\ Len(BodiesAt(2, "foreach_body")) = Len(snap))
    /\ ((IsSelfChanging /\ Running) ~> Finished)

\* a loop over two items whose body inserted a new first item at each run
C5_Witness ==
    /\ IsSelfChanging /\ Finished
    /\ call.ops[1].operations[1].type = "Insert"
    /\ ItemsOf(call.collections) = <<ItemA, ItemB>>
    /\ collections["items"] = <<ItemNew, ItemNew, ItemA, ItemB>>
    /\ ctx["item"] = ItemB
    /\ Len(BodiesAt(2, "foreach_body")) = 2

IsIfCall == call.ops \in IfEffects

\* C6: IfCondition evaluates its predicate exactly once and runs exactly one
\* branch.  For an IfCondition whose predicate has a value on the state the
\* call started from: one evaluation is recorded and it is that value; when it
\* is true the `then` list runs once and the `else` list never; when it is
\* false and an else is present the `else` list runs once and the `then` list
\* never; when it is false and there is no else no branch runs and the score,
\* the collections and the context are as before when the operation after the
\* IfCondition starts.  The branch is chosen by the value on entry although
\* the `then` list moves the score the predicate reads: the final score is
\* what the chosen branch alone makes of it.
C6_IfRunsOneBranch ==
    IsIfCall =>
        LET op == call.ops[1]
            r == evaluate_predicate(op.condition, call.ctx, call.gs_vars, call.world)
            preds == PredsAt(1)
            thens == BodiesAt(1, "then")
            elses == BodiesAt(1, "else")
            branchOps == OpsRunAt(2)
            started == Len(OpsRunAt(1)) >= 1
            chosen == IF r.v THEN op.then
                      ELSE IF op.else_.some THEN op.else_.v ELSE <<>>
        IN  /\ Len(preds) = (IF started THEN 1 ELSE 0)
            /\ started => preds[1].r = r
            /\ r.ok =>
                /\ Len(thens) = (IF started /\ r.v THEN 1 ELSE 0)
                /\ Len(elses) = (IF started /\ ~r.v /\ op.else_.some THEN 1 ELSE 0)
                /\ Len(branchOps) <= Len(chosen)
                /\ \A j \in 1..Len(branchOps) : branchOps[j].type = chosen[j].type
                /\ (started /\ ~r.v /\ ~op.else_.some /\ Len(stack) = 1 /\ Top.i = 2) =>
                        /\ world = call.world /\ gs_vars = call.gs_vars
                        /\ collections = call.collections /\ ctx = call.ctx
                /\ Finished =>
                        /\ result = RetOk
                        /\ Len(branchOps) = Len(chosen)
                        /\ world.current = call.world.current
                                + (IF r.v THEN -8 ELSE IF chosen # <<>> THEN 5 ELSE 0)
                        /\ collections = call.collections
                        /\ ctx = Put(call.ctx, "x", VInt(7))

\* the predicate score.current > 5 held on entry, the `then` list took the
\* score from 10 to 2, and the `else` list, which adds 5, did not run
C6_Witness ==
    /\ IsIfCall /\ Finished
    /\ call.ops[1].condition = PCmp("GreaterThan", "score.current", VInt(5))
    /\ call.ops[1].else_ = Some(<<OpAdd("score.current", 5)>>)
    /\ Len(PredsAt(1)) = 1 /\ PredsAt(1)[1].r = Ok(TRUE)
    /\ Len(BodiesAt(1, "then")) = 1 /\ Len(BodiesAt(1, "else")) = 0
    /\ world.current = 2

\* ---- collection operations ----
TheOp == call.ops[1]
OldItems == call.collections["items"]
NewItems == collections["items"]
IsFilterCall == call.ops \in FilterEffects /\ "items" \in DOMAIN call.collections
IsRemoveCall == call.ops \in RemoveEffects /\ "items" \in DOMAIN call.collections

\* the positions of `items` whose item satisfies the optional predicate
KeptAt(items, filter) ==
    {i \in 1..Len(items) : filter.some => evaluate_item_predicate(filter.v, items[i])}
\* the items at those positions, in their order in `items`
Kept(items, filter) ==
    LET K == KeptAt(items, filter) IN
    [j \in 1..Cardinality(K) |->
        items[CHOOSE i \in K : Cardinality({x \in K : x < i}) = j - 1]]
Occurrences(s, x) == Cardinality({i \in 1..Len(s) : s[i] = x})

\* C7: after Filter(C, Q) on an existing collection, C holds exactly the items
\* of the old C for which Q evaluated true, in their original relative order:
\* every remaining item satisfies Q, as many items are gone as did not satisfy
\* Q, the call returns Ok and the other collection and the context are as
\* before.
C7_FilterKeepsExactlyQ ==
    (IsFilterCall /\ Finished) =>
        LET Q == Some(TheOp.predicate) IN
        /\ result = RetOk
        /\ NewItems = Kept(OldItems, Q)
        /\ \A i \in 1..Len(NewItems) : evaluate_item_predicate(Q.v, NewItems[i])
        /\ Len(OldItems) - Len(NewItems) =
                Cardinality({i \in 1..Len(OldItems) :
                                ~evaluate_item_predicate(Q.v, OldItems[i])})
        /\ collections["discard"] = call.collections["discard"]
        /\ ctx = call.ctx

\* the tagged item and every item whose id is not 1 stay, in order
C7_Witness ==
    /\ IsFilterCall /\ Finished
    /\ TheOp.predicate = POr(<<PHasTag("rare"), PNotEquals("id", VInt(1))>>)
    /\ OldItems = <<ItemT, ItemA, ItemC>>
    /\ NewItems = <<ItemT, ItemC>>

\* C8 as stated: Remove(C, k, ...) leaves len(C) - k items when k <= len(C)
\* and 0 items when k > len(C), whatever the filter and random arguments,
\* and returns Ok.
C8_Original ==
    (IsRemoveCall /\ Finished) =>
        /\ result = RetOk
        /\ Len(NewItems) = IF TheOp.count <= Len(OldItems)
                           THEN Len(OldItems) - TheOp.count ELSE 0

\* C8: Remove(C, k, filter, random) on an existing collection never returns
\* an error and leaves len(F) - k items when k <= len(F) and 0 items when
\* k > len(F), where F is C after the pre-filter (C itself when no filter is
\* given); without a filter that is len(C) - k, or 0.
C8_RemoveLeaves ==
    (IsRemoveCall /\ Finished) =>
        LET F == Kept(OldItems, TheOp.filter) IN
        /\ result = RetOk
        /\ Len(NewItems) = IF TheOp.count <= Len(F) THEN Len(F) - TheOp.count ELSE 0
        /\ ~TheOp.filter.some =>
                Len(NewItems) = IF TheOp.count <= Len(OldItems)
                                THEN Len(OldItems) - TheOp.count ELSE 0

\* a random Remove of 2 from three items of which the pre-filter kept two,
\* and one of 4 from three items without a filter
C8_Witness ==
    /\ IsRemoveCall /\ Finished /\ result = RetOk
    /\ \/ /\ TheOp.count = 2 /\ TheOp.random = Some(TRUE)
          /\ TheOp.filter = Some(PNotEquals("id", VInt(1)))
          /\ OldItems = <<ItemA, ItemB, ItemC>>
          /\ NewItems = <<>>
       \/ /\ TheOp.count = 4 /\ TheOp.filter = None
          /\ Len(OldItems) = 3 /\ NewItems = <<>>

\* the items a Remove recorded, read back from the context variable `removed`
RemovedItems == IF ctx["removed"].t = "Array" THEN ctx["removed"].v ELSE <<ctx["removed"]>>

\* C9: Remove with random absent or false takes items from the end.  With F
\* the content Collection::remove starts from (the collection, after the
\* pre-filter when one is given) and j = min(count, length of F): afterwards
\* the collection is the first length - j items of F in unchanged order and
\* the removed items are the last j items of F, recorded last item first.
C9_RemoveFromEndLIFO ==
    (IsRemoveCall /\ Finished /\ TheOp.random \in {None, Some(FALSE)}) =>
        LET F == Kept(OldItems, TheOp.filter)
            j == IF TheOp.count <= Len(F) THEN TheOp.count ELSE Len(F)
        IN  /\ NewItems = SubSeq(F, 1, Len(F) - j)
            /\ RemovedItems = [i \in 1..j |-> F[Len(F) - i + 1]]
            /\ ~TheOp.filter.some =>
                    NewItems = SubSeq(OldItems, 1, Len(OldItems) - j)

\* two of three items removed without a filter: the first item stays and the
\* third is recorded before the second
C9_Witness ==
    /\ IsRemoveCall /\ Finished
    /\ TheOp.random = None /\ TheOp.filter = None /\ TheOp.count = 2
    /\ OldItems = <<ItemA, ItemT, ItemC>>
    /\ NewItems = <<ItemA>>
    /\ ctx["removed"] = VArray(<<ItemC, ItemT>>)

\* C10: after a Remove on an existing collection the context variable
\* `removed` is the removed item itself when exactly one item was removed and
\* otherwise an Array of all removed items (the empty Array when nothing was
\* removed, whatever `removed` held before).  The removed items are min(count,
\* length after the pre-filter) many, they and the items left make up the
\* pre-filtered collection, each of them passed the pre-filter, and without
\* random they are in the order they were removed, last item first.
C10_RemovedVariable ==
    (IsRemoveCall /\ Finished) =>
        LET F == Kept(OldItems, TheOp.filter)
            j == IF TheOp.count <= Len(F) THEN TheOp.count ELSE Len(F)
            R == RemovedItems
        IN  /\ "removed" \in DOMAIN ctx
            /\ Len(R) = j
            /\ (ctx["removed"].t = "Array") = (j # 1)
            /\ j = 0 => ctx["removed"] = VArray(<<>>)
            /\ j = 1 => ctx["removed"] \in {F[i] : i \in 1..Len(F)}
            /\ \A x \in CollPool :
                    Occurrences(F, x) = Occurrences(NewItems, x) + Occurrences(R, x)
            /\ \A i \in 1..Len(R) :
                    TheOp.filter.some => evaluate_item_predicate(TheOp.filter.v, R[i])
            /\ TheOp.random \in {None, Some(FALSE)} =>
                    R = [i \in 1..j |-> F[Len(F) - i + 1]]

\* the pre-filter dropped the first of three items and a random Remove of 1
\* took the last one: `removed` is that item, not an Array
C10_Witness ==
    /\ IsRemoveCall /\ Finished
    /\ TheOp.random = Some(TRUE) /\ TheOp.count = 1
    /\ TheOp.filter = Some(PNotEquals("id", VInt(1)))
    /\ call.ctx = [k \in {"removed"} |-> VStr("old")]
    /\ OldItems = <<ItemA, ItemB, ItemT>>
    /\ NewItems = <<ItemB>>
    /\ ctx["removed"] = ItemT

Range(s) == {s[i] : i \in 1..Len(s)}

RECURSIVE IsSubseq(_, _)
\* s can be obtained from t by deleting items
IsSubseq(s, t) ==
    IF Len(s) = 0 THEN TRUE
    ELSE IF Len(t) = 0 THEN FALSE
    ELSE IF Head(s) = Head(t) THEN IsSubseq(Tail(s), Tail(t))
    ELSE IsSubseq(s, Tail(t))

\* C11: Remove with random = true, for every choice of positions.  With F the
\* collection after the optional pre-filter: min(count, length of F) items
\* are removed, each of them an item of F, the remaining items are F with
\* items deleted (their relative order is kept), and removed plus remaining
\* items hold every value as often as F does.  After Filter(C, Q) followed by
\* Remove(C, 1, random) on a collection with m >= 1 items satisfying Q the
\* length is m - 1 and the removed item satisfies Q and was an item of C.
C11_RandomRemove ==
    /\ (IsRemoveCall /\ Finished /\ TheOp.random = Some(TRUE)) =>
            LET F == Kept(OldItems, TheOp.filter)
                R == RemovedItems
            IN  /\ Len(R) = (IF TheOp.count <= Len(F) THEN TheOp.count ELSE Len(F))
                /\ Range(R) \subseteq Range(F)
                /\ IsSubseq(NewItems, F)
                /\ \A x \in Range(F) \cup Range(R) \cup Range(NewItems) :
                        Occurrences(F, x) = Occurrences(NewItems, x) + Occurrences(R, x)
    /\ (call.ops \in ScenarioEffects /\ Finished) =>
            LET Q == call.ops[1].predicate
                m == Cardinality(KeptAt(OldItems, Some(Q)))
            IN  /\ result = RetOk
                /\ m >= 1 =>
                        /\ Len(NewItems) = m - 1
                        /\ ctx["removed"] \in Range(OldItems)
                        /\ evaluate_item_predicate(Q, ctx["removed"])
                        /\ IsSubseq(NewItems, Kept(OldItems, Some(Q)))

\* the filter kept the two items whose `correct` is not true and the draw took
\* the first of them
C11_Witness ==
    /\ call.ops \in ScenarioEffects /\ Finished
    /\ call.ops[1].predicate = PNot(PEquals("correct", VBool(TRUE)))
    /\ OldItems = <<ItemC, ItemA, ItemB>>
    /\ NewItems = <<ItemB>>
    /\ ctx["removed"] = ItemC

IsGrowCall == call.ops \in GrowEffects /\ "items" \in DOMAIN call.collections

\* C12: Insert(C, index, item) adds exactly one item and never fails on the
\* index.  With index <= len(C) the item is at position index (counted from
\* 0), the items before it are the first index items of the old C and the
\* items after it are the rest of the old C, in order; with index > len(C)
\* the item is last and the old items are before it.  Append places the item
\* last.  Both return Ok and leave the other collection and the context alone.
C12_InsertAppend ==
    (IsGrowCall /\ Finished) =>
        LET n == Len(OldItems)
            p == IF TheOp.type = "Insert" /\ TheOp.index <= n THEN TheOp.index + 1
                 ELSE n + 1
        IN  /\ result = RetOk
            /\ Len(NewItems) = n + 1
            /\ NewItems[p] = TheOp.item
            /\ \A k \in 1..n : (IF k < p THEN NewItems[k] ELSE NewItems[k + 1]) = OldItems[k]
            /\ TheOp.type = "Append" => NewItems = OldItems \o <<TheOp.item>>
            /\ collections["discard"] = call.collections["discard"]
            /\ ctx = call.ctx

\* index 1 of three items: the new item is second; index 4 of two items: last
C12_Witness ==
    /\ IsGrowCall /\ Finished /\ TheOp.type = "Insert"
    /\ \/ /\ TheOp.index = 1
          /\ OldItems = <<ItemA, ItemB, ItemC>>
          /\ NewItems = <<ItemA, ItemNew, ItemB, ItemC>>
       \/ /\ TheOp.index = 4
          /\ OldItems = <<ItemA, ItemB>>
          /\ NewItems = <<ItemA, ItemB, ItemNew>>

IsMissingPathCall == call.ops \in MissingPathEffects /\ "ghost" \notin DOMAIN call.collections

\* C13: collections come into existence only through Append or Insert.
\* Filter and Remove on a path that has no collection return Ok, do not
\* create the collection and leave every collection and every context
\* variable, `removed` included, as they were; Append or Insert on such a
\* path creates the collection holding exactly the given item.  No step other
\* than an Append or an Insert changes the set of paths that have a collection.
C13_OnlyAppendInsertCreate ==
    /\ [](  (IsMissingPathCall /\ Finished) =>
                /\ result = RetOk
                /\ ctx = call.ctx
                /\ TheOp.type \in {"Filter", "Remove"} =>
                        /\ collections = call.collections
                        /\ "ghost" \notin DOMAIN collections
                /\ TheOp.type \in {"Append", "Insert"} =>
                        collections = Put(call.collections, "ghost", <<TheOp.item>>))
    /\ [][ DOMAIN collections' # DOMAIN collections =>
                /\ AtOp /\ CurOp.type \in {"Append", "Insert"}
                /\ DOMAIN collections' = DOMAIN collections \cup {CurOp.target} ]_vars

\* a random Remove with a pre-filter on the missing path has returned: there
\* is still no such collection and `removed` is what an earlier use left
C13_Witness ==
    /\ IsMissingPathCall /\ Finished /\ result = RetOk
    /\ TheOp = OpRemove("ghost", 2, Some(PHasTag("rare")), Some(TRUE))
    /\ "ghost" \notin DOMAIN collections
    /\ call.ctx = [k \in {"removed"} |-> VStr("old")]
    /\ ctx = call.ctx

\* ---- events ----
ListenersOf(el, e) == IF e \in DOMAIN el THEN el[e] ELSE <<>>

\* the bodies the first n operations of ops register for event e, in order
RegisteredBy(ops, n, e) ==
    LET regs == SelectSeq(SubSeq(ops, 1, n),
                          LAMBDA op : op.type = "OnEvent" /\ op.event = e)
    IN  [j \in 1..Len(regs) |-> regs[j].operations]

RECURSIVE ScoreAfter(_, _)
\* the score after the one-operation bodies BodyAdd and BodySet ran in order
ScoreAfter(score, bodies) ==
    IF Len(bodies) = 0 THEN score
    ELSE ScoreAfter(IF Head(bodies) = BodyAdd THEN score + 1 ELSE 50, Tail(bodies))

\* the call has returned and clear_listeners has not been called since
Returned == Finished /\ \A i \in 1..Len(log) : log[i].ev # "clear"

IsRegisterEmitCall == call.ops \in RegisterEmitEffects

\* C14: listener registrations accumulate and are dispatched in registration
\* order.  Every OnEvent(E, body) step appends body to E's list and leaves the
\* lists of the other events alone; after an effect that registers listeners
\* and then emits "scored", every event's list is its list on entry followed
\* by the bodies the effect registered for it (n equal registrations give n
\* entries), the emit started each body of "scored" exactly once, first
\* registered first, the score is what these bodies make of it in that order,
\* and the body registered under "other" did not run.
C14_ListenersAccumulateInOrder ==
    /\ [][ (AtOp /\ CurOp.type = "OnEvent") =>
                \A e \in EventNames :
                    ListenersOf(event_listeners', e) =
                        IF e = CurOp.event
                        THEN Append(ListenersOf(event_listeners, e), CurOp.operations)
                        ELSE ListenersOf(event_listeners, e) ]_vars
    /\ [](  (IsRegisterEmitCall /\ Returned) =>
                LET ops == call.ops
                    L == ListenersOf(call.event_listeners, "scored")
                            \o RegisteredBy(ops, Len(ops), "scored")
                    ran == OpsRunAt(3)
                IN  /\ result = RetOk
                    /\ \A e \in EventNames :
                            ListenersOf(event_listeners, e) =
                                ListenersOf(call.event_listeners, e)
                                    \o RegisteredBy(ops, Len(ops), e)
                    /\ Len(BodiesAt(2, "listener")) = Len(L)
                    /\ Len(ran) = Len(L)
                    /\ \A j \in 1..Len(L) : ran[j].type = L[j][1].type
                    /\ world.current = ScoreAfter(call.world.current, L)
                    /\ ctx = call.ctx)

\* an earlier call registered BodyAdd; this one registered BodySet and BodyAdd
\* after it and emitted: the three bodies ran as Add, Set, Add
C14_Witness ==
    /\ IsRegisterEmitCall /\ Returned
    /\ call.event_listeners = [e \in {"scored"} |-> <<BodyAdd>>]
    /\ event_listeners["scored"] = <<BodyAdd, BodySet, BodyAdd>>
    /\ Len(BodiesAt(2, "listener")) = 3
    /\ world.current = 51

IsRepeatEmitCall == call.ops \in RepeatEmitEffects

\* the listener list L dispatched k times in a row
Repeated(L, k) == [j \in 1..(k * Len(L)) |-> L[((j - 1) % Len(L)) + 1]]

\* C15: listeners are not consumed by dispatch.  An effect of k successive
\* EmitEvent("scored"), run as a first or a later call, starts every listener
\* registered for "scored" k times and leaves the registry as it was; with the
\* single listener [Add(score.current, 1)] it raises the score by exactly k.
\* The registry changes only when an OnEvent executes or when clear_listeners
\* is called; after clear_listeners get_event_listeners returns nothing for
\* every event, and an EmitEvent on the cleared registry runs no body.
C15_ListenersNotConsumed ==
    /\ [](  (IsRepeatEmitCall /\ Returned) =>
                LET k == Len(call.ops)
                    L == ListenersOf(call.event_listeners, "scored")
                IN  /\ result = RetOk
                    /\ event_listeners = call.event_listeners
                    /\ Len(BodiesAt(2, "listener")) = k * Len(L)
                    /\ world.current = ScoreAfter(call.world.current, Repeated(L, k))
                    /\ L = <<BodyAdd>> => world.current = call.world.current + k
                    /\ call.event_listeners = EmptyMap => world = call.world)
    /\ [][ event_listeners' # event_listeners =>
                \/ AtOp /\ CurOp.type = "OnEvent"
                \/ ~Running /\ log' = Append(log, [ev |-> "clear", d |-> 0]) ]_vars
    /\ [][ log' = Append(log, [ev |-> "clear", d |-> 0]) =>
                \A e \in EventNames :
                    get_event_listeners(event_listeners', e) = None ]_vars

\* a later call emits three times against the listener an earlier call
\* registered: the score goes from 11 to 14
C15_Witness ==
    /\ IsRepeatEmitCall /\ Returned
    /\ Len(call.ops) = 3
    /\ call.event_listeners = [e \in {"scored"} |-> <<BodyAdd>>]
    /\ calls = 2
    /\ call.world.current = 11
    /\ world.current = 14
    /\ event_listeners = call.event_listeners

\* a listener ran in an earlier call, clear_listeners was called, and the two
\* emits of this call ran nothing
C15_ClearedWitness ==
    /\ IsRepeatEmitCall /\ Returned
    /\ Len(call.ops) = 2
    /\ call.event_listeners = EmptyMap
    /\ call.world.current = 11
    /\ world.current = 11
    /\ Len(BodiesAt(2, "listener")) = 0

IsDataEmitCall == call.ops \in DataEmitEffects

\* the value the context holds under `event.<k>` after the emits of ops, if
\* every emit merges its data: the value of the last emit that carries k
LastData(ops, k) ==
    LET carrying == {j \in 1..Len(ops) : k \in DOMAIN ops[j].data.v}
    IN  ops[CHOOSE j \in carrying : \A x \in carrying : x <= j].data.v[k]

\* C16: EmitEvent(E, data) with data present sets the context variable
\* `event.<k>` to data[k] for every key k of data, for every event name E,
\* whether or not a listener is registered for E; keys set by an earlier emit
\* and not present in the data of a later one keep their values.  Stated on
\* the context after an effect of one or two such emits has returned.
C16_EventDataMerged ==
    (IsDataEmitCall /\ Returned) =>
        \A j \in 1..Len(call.ops) : \A k \in DOMAIN call.ops[j].data.v :
            /\ EventKey(k) \in DOMAIN ctx
            /\ ctx[EventKey(k)] = LastData(call.ops, k)

\* What the code does about C16: the data is merged, before the first body
\* starts, when the event has a registered listener; an emit of an event
\* without listeners leaves the context as it is.
C16_MergedWhenListened ==
    [][ (AtOp /\ CurOp.type = "EmitEvent" /\ CurOp.data.some) =>
            IF get_event_listeners(event_listeners, CurOp.event).some
            THEN /\ \A k \in DOMAIN CurOp.data.v : ctx'[EventKey(k)] = CurOp.data.v[k]
                 /\ \A x \in DOMAIN ctx \ {EventKey(k) : k \in DOMAIN CurOp.data.v} :
                        ctx'[x] = ctx[x]
                 /\ log' = Append(log, LogOp)
            ELSE ctx' = ctx ]_vars

\* the NestedEmitEffect runs on a registry without listeners for "a" and "b"
IsNestedEmitCall ==
    /\ call.ops = NestedEmitEffect
    /\ "a" \notin DOMAIN call.event_listeners
    /\ "b" \notin DOMAIN call.event_listeners

\* the operations dispatched so far, each with the depth of its frame
OpTrace ==
    LET opsRun == SelectSeq(log, LAMBDA e : e.ev = "op")
    IN  [j \in 1..Len(opsRun) |-> <<opsRun[j].d, opsRun[j].type>>]

\* depth-first order of the NestedEmitEffect: the four registrations and the
\* emit of "a"; the first listener of "a" up to its emit of "b"; both
\* listeners of "b"; the rest of the first listener of "a"; its second listener
NestedOrder ==
    <<  <<1, "OnEvent">>, <<1, "OnEvent">>, <<1, "OnEvent">>, <<1, "OnEvent">>,
        <<1, "EmitEvent">>,
        <<3, "Add">>, <<3, "EmitEvent">>,
        <<5, "Set">>, <<5, "Add">>,
        <<3, "Set">>,
        <<3, "Add">>  >>

\* C17: event emission is synchronous and depth-first.  When the first
\* listener of "a" emits "b" in the middle of its body, the operations are
\* dispatched in NestedOrder: both listeners of "b" run to completion before
\* the rest of that body and before the second listener of "a"; they work on
\* the same context and state (the data of the inner emit is in the context,
\* the score ends at 51, which only this order of the Adds and Sets gives);
\* and when the call returns Ok every listener body has run to its end.
C17_EmitDepthFirst ==
    IsNestedEmitCall =>
        /\ Len(OpTrace) <= Len(NestedOrder)
        /\ \A j \in 1..Len(OpTrace) : OpTrace[j] = NestedOrder[j]
        /\ Returned =>
                /\ result = RetOk
                /\ Len(OpTrace) = Len(NestedOrder)
                /\ Len(BodiesAt(2, "listener")) = 2
                /\ Len(BodiesAt(4, "listener")) = 2
                /\ world.current = 51
                /\ ctx = Put(call.ctx, "event.points", VInt(3))

\* both listeners of "b" have run (the score is 21) while the first listener
\* of "a" still waits at its third operation, under the emit it made
C17_Witness ==
    /\ IsNestedEmitCall /\ Len(stack) = 5
    /\ stack[3].ops = BodyA1 /\ stack[3].i = 3
    /\ stack[4].kind = "emit"
    /\ Top.ops = BodyB2 /\ Top.i = 2
    /\ world.current = 21
    /\ ctx["event.points"] = VInt(3)

IsSelfEmitCall == calls > 0 /\ call.ops \in SelfEmitEffects

EmitFramesOnStack == Cardinality({d \in 1..Len(stack) : stack[d].kind = "emit"})
EmitsDispatched == Len(SelectSeq(log, LAMBDA e : e.ev = "op" /\ e.type = "EmitEvent"))

\* C18: there is no cycle or depth guard on event emission.  When a listener
\* of E unconditionally emits E again, directly or through a second event
\* that leads back to E, the call never returns: its result stays pending,
\* no emit that was dispatched is ever left again (every EmitEvent dispatched
\* so far still has its frame on the stack), and the score has grown by one
\* for every run of a listener's Add: once per level when E emits itself.
C18_SelfEmitNeverReturns ==
    IsSelfEmitCall =>
        /\ result = Pending
        /\ Running
        /\ EmitFramesOnStack = EmitsDispatched
        /\ world.current - call.world.current =
                Len(SelectSeq(log, LAMBDA e : e.ev = "op" /\ e.type = "Add"))
        /\ call.ops[1].event = "again" =>
                world.current - call.world.current \in
                    {EmitFramesOnStack - 1, EmitFramesOnStack}

\* the recursion has reached the deepest stack the model follows, with three
\* emits of "again" nested in each other and the listener run three times
C18_Witness ==
    /\ IsSelfEmitCall /\ Len(stack) >= MaxDepth
    /\ call.ops[1].event = "again"
    /\ EmitFramesOnStack >= 3
    /\ world.current >= call.world.current + 3
    /\ result = Pending

\* ---- predicates ----
IsStateCmpCall == call.ops \in StateCmpEffects
IsItemCmpCall == call.ops \in ItemCmpEffects /\ "items" \in DOMAIN call.collections

\* the left operand of the state-level comparison of this call, on entry
LeftOperand == resolve_value(TheOp.condition.field, call.ctx, call.gs_vars, call.world)

\* the state-level comparison of this call has an operand that is no number
HasNonNumber ==
    LeftOperand.ok /\ (~IsNumber(LeftOperand.v) \/ ~IsNumber(TheOp.condition.value))

ThenRan == world.current = call.world.current + 1 /\ ctx = call.ctx
ElseRan == world = call.world /\ ctx = Put(call.ctx, "branch", VStr("else"))

\* the comparison inside the Filter predicate of this call (under its Not)
ItemCmp == IF TheOp.predicate.type = "Not" THEN TheOp.predicate.predicate ELSE TheOp.predicate

\* both operands of ItemCmp on `item` are numbers and the comparison holds
NumericallyTrue(item) ==
    LET iv == get_field_value(item, ItemCmp.field) IN
    /\ iv.some /\ IsNumber(iv.v) /\ IsNumber(ItemCmp.value)
    /\ NumOp(ItemCmp.type, AsF64(iv.v), AsF64(ItemCmp.value))

\* an item of the collection has a field value, or the predicate an operand,
\* that is no number
SomeItemNonNumber ==
    \E i \in 1..Len(OldItems) :
        LET iv == get_field_value(OldItems[i], ItemCmp.field) IN
        iv.some /\ (~IsNumber(iv.v) \/ ~IsNumber(ItemCmp.value))

\* C19 as stated: with an operand that is neither Int nor Float the
\* state-level evaluator yields false without an error (the IfCondition takes
\* its else branch and the call returns Ok), and the item-level evaluator
\* fails with an invalid-value error (the Filter returns that error).
C19_Original ==
    /\ (IsStateCmpCall /\ Finished /\ HasNonNumber) => (result = RetOk /\ ElseRan)
    /\ (IsItemCmpCall /\ Finished /\ SomeItemNonNumber) =>
            (result.status = "Err" /\ result.err.kind = "InvalidValue")

\* C19: the asymmetry is the other way round.  With an operand that is
\* neither Int nor Float the state-level evaluator fails with
\* InvalidValue("Not a number"): the IfCondition runs no branch and the call
\* returns that error.  The item-level evaluator yields false without an
\* error: the Filter returns Ok and keeps exactly the items for which both
\* operands are numbers and the comparison holds (under Not: exactly the
\* other items).  With two numbers both evaluators compare numerically.
C19_NonNumericOperands ==
    /\ (IsStateCmpCall /\ Finished /\ LeftOperand.ok) =>
            IF HasNonNumber
            THEN /\ result = RetErr(InvalidValue("Not a number"))
                 /\ PredsAt(1)[1].r = Err(InvalidValue("Not a number"))
                 /\ world = call.world /\ ctx = call.ctx
            ELSE /\ result = RetOk
                 /\ IF NumOp(TheOp.condition.type, AsF64(LeftOperand.v),
                             AsF64(TheOp.condition.value))
                    THEN ThenRan ELSE ElseRan
    /\ (IsItemCmpCall /\ Finished) =>
            /\ result = RetOk
            /\ IsSubseq(NewItems, OldItems)
            /\ \A x \in Range(OldItems) :
                    Occurrences(NewItems, x) =
                        IF NumericallyTrue(x) = (TheOp.predicate.type # "Not")
                        THEN Occurrences(OldItems, x) ELSE 0

\* Filter(Not(correct > 15)) has returned Ok and kept every item although
\* `correct` is a Bool
C19_Witness ==
    /\ IsItemCmpCall /\ Finished /\ result = RetOk
    /\ TheOp.predicate = PNot(PCmp("GreaterThan", "correct", VInt(15)))
    /\ OldItems = <<ItemA, ItemB>>
    /\ NewItems = OldItems

\* IfCondition(timer.paused < 5) has returned InvalidValue and ran no branch
C19_StateWitness ==
    /\ IsStateCmpCall /\ Finished
    /\ TheOp.condition = PCmp("LessThan", "timer.paused", VInt(5))
    /\ result = RetErr(InvalidValue("Not a number"))
    /\ world = call.world /\ ctx = call.ctx

IsUnimplementedCall == call.ops \in UnimplementedEffects

\* C20: in the state-level evaluator HasTag, IsType, Contains and Expression
\* evaluate to false and never return an error, whatever their arguments and
\* the context (Contains on a path that does not resolve included); Not of
\* any of them is true.  An IfCondition on one of them returns Ok having run
\* its else list and not its then list; on Not of one of them it has run its
\* then list.
C20_UnimplementedAreFalse ==
    /\ \A p \in UnimplementedPredicates :
            /\ evaluate_predicate(p, ctx, gs_vars, world) = Ok(FALSE)
            /\ evaluate_predicate(PNot(p), ctx, gs_vars, world) = Ok(TRUE)
    /\ (IsUnimplementedCall /\ Finished) =>
            LET negated == TheOp.condition.type = "Not" IN
            /\ result = RetOk
            /\ Len(PredsAt(1)) = 1
            /\ PredsAt(1)[1].r = Ok(negated)
            /\ Len(BodiesAt(1, "then")) = (IF negated THEN 1 ELSE 0)
            /\ Len(BodiesAt(1, "else")) = (IF negated THEN 0 ELSE 1)
            /\ IF negated THEN ThenRan ELSE ElseRan

\* IfCondition(Contains("bogus.path", 1)) has returned Ok through its else list
C20_Witness ==
    /\ IsUnimplementedCall /\ Finished /\ result = RetOk
    /\ TheOp.condition = PContains("bogus.path", VInt(1))
    /\ Len(BodiesAt(1, "else")) = 1
    /\ ctx["branch"] = VStr("else")
    /\ world = call.world

\* ---- boolean algebra ----
IsStateBoolCall == call.ops \in BoolEffects /\ TheOp.type = "IfCondition"
IsItemBoolCall ==
    call.ops \in BoolEffects /\ TheOp.type = "Filter" /\ "items" \in DOMAIN call.collections

\* what an IfCondition built by Decide leaves behind when its condition had
\* the outcome r: the `then` list ran, the `else` list ran, or the error r
\* came back and nothing ran
DecidedAs(r) ==
    IF ~r.ok THEN result = RetErr(r.err) /\ world = call.world /\ ctx = call.ctx
    ELSE result = RetOk /\ (IF r.v THEN ThenRan ELSE ElseRan)

AllItems == UNION {Range(collections[c]) : c \in DOMAIN collections}

\* C21: in both evaluators And of the empty list is true, Or of the empty
\* list is false, and Not(Not(p)) has the outcome of p: the same boolean, or
\* (state level) the same error.  This holds for every predicate of
\* StateCombined in every state reached and for every predicate of
\* ItemCombined on every item of a collection; an IfCondition on Not(Not(p))
\* ends as the outcome of p on the entry state dictates, a Filter on
\* Not(Not(q)) leaves what a Filter on q leaves, Filter(And([])) keeps every
\* item and Filter(Or([])) none.
C21_BooleanAlgebra ==
    /\ evaluate_predicate(PAnd(<<>>), ctx, gs_vars, world) = Ok(TRUE)
    /\ evaluate_predicate(POr(<<>>), ctx, gs_vars, world) = Ok(FALSE)
    /\ \A p \in StateCombined :
            evaluate_predicate(PNot(PNot(p)), ctx, gs_vars, world)
                = evaluate_predicate(p, ctx, gs_vars, world)
    /\ \A item \in AllItems :
            /\ evaluate_item_predicate(PAnd(<<>>), item)
            /\ ~evaluate_item_predicate(POr(<<>>), item)
            /\ \A q \in ItemCombined :
                    evaluate_item_predicate(PNot(PNot(q)), item)
                        = evaluate_item_predicate(q, item)
    /\ (IsStateBoolCall /\ Finished) =>
            LET c == TheOp.condition IN
            /\ Len(PredsAt(1)) = 1
            /\ CASE c = PAnd(<<>>) -> PredsAt(1)[1].r = Ok(TRUE) /\ DecidedAs(Ok(TRUE))
                 [] c = POr(<<>>) -> PredsAt(1)[1].r = Ok(FALSE) /\ DecidedAs(Ok(FALSE))
                 [] OTHER ->
                    LET r == evaluate_predicate(c.predicate.predicate,
                                                call.ctx, call.gs_vars, call.world)
                    IN  PredsAt(1)[1].r = r /\ DecidedAs(r)
    /\ (IsItemBoolCall /\ Finished) =>
            LET q == TheOp.predicate IN
            /\ result = RetOk
            /\ CASE q = PAnd(<<>>) -> NewItems = OldItems
                 [] q = POr(<<>>) -> NewItems = <<>>
                 [] OTHER -> NewItems = Collection_filter(OldItems, q.predicate.predicate)

\* IfCondition(Not(Not(bogus.path < 5))) has returned InvalidPath, the error
\* of the inner predicate, without running a branch
C21_Witness ==
    /\ IsStateBoolCall /\ Finished
    /\ TheOp.condition = PNot(PNot(PCmp("LessThan", "bogus.path", VInt(5))))
    /\ result = RetErr(InvalidPath("bogus.path"))
    /\ world = call.world /\ ctx = call.ctx

\* Filter(Or([])) has emptied a collection of three items
C21_EmptyOrWitness ==
    /\ IsItemBoolCall /\ Finished /\ result = RetOk
    /\ TheOp.predicate = POr(<<>>)
    /\ Len(OldItems) = 3 /\ NewItems = <<>>

\* ---- value and flag operations ----
IsRoundTripCall == call.ops \in RoundTripEffects
\* what the path P of the call's first operation held on entry, and holds now
HeldOnEntry == GameState_get(TheOp.target, call.gs_vars, call.world)
HeldNow == GameState_get(TheOp.target, gs_vars, world)
\* Add succeeds on P in the entry state
AddSucceeds == GameState_add(TheOp.target, TheOp.amount, call.gs_vars, call.world).ok
\* timer.remaining: the sum Add wrote was negative and was clamped at 0
ClampedAtZero ==
    /\ TheOp.target = "timer.remaining"
    /\ wrapping_add(as_int(HeldOnEntry.v).v, TheOp.amount) < 0

\* C22 as stated: for every path on which Add succeeds and every integer a,
\* Add(P, a) followed by Subtract(P, a) returns Ok and leaves P holding the
\* value it held on entry, unless P is timer.remaining and the sum was
\* clamped at 0.
C22_AddSubtractRestores ==
    (IsRoundTripCall /\ AddSucceeds /\ Finished) =>
        /\ result = RetOk
        /\ ClampedAtZero \/ HeldNow = HeldOnEntry

\* What the code does: on a path holding an Int the round trip restores the
\* value (the clamped timer aside) unless an overflow check stopped it; on a
\* variable holding a Float it leaves the Int the Float truncates to.
C22_RestoresIntsOnly ==
    (IsRoundTripCall /\ AddSucceeds /\ Finished) =>
        LET a == TheOp.amount
            v == as_int(HeldOnEntry.v).v
        IN  /\ result \in {RetOk, Panicked}
            /\ result = Panicked =>
                    \/ AddOverflows(v, a) \/ NegOverflows(a)
                    \/ AddOverflows(as_int(HeldNow.v).v, wrapping_neg(a))
            /\ result = RetOk => (ClampedAtZero \/ HeldNow = Some(VInt(v)))

\* var.x held Float 2.5; Add(var.x, 1) and Subtract(var.x, 1) returned Ok and
\* left Int 2
C22_FloatTruncated ==
    /\ IsRoundTripCall /\ Finished /\ result = RetOk
    /\ TheOp.target = "var.x" /\ TheOp.amount = 1
    /\ HeldOnEntry = Some(VFloat(5))
    /\ HeldNow = Some(VInt(2))

\* score.current held 10; Add(score.current, 2147483647) panicked
C22_OverflowPanicked ==
    /\ IsRoundTripCall /\ Finished /\ result = Panicked
    /\ TheOp.target = "score.current" /\ TheOp.amount = MaxI32
    /\ world = call.world

IsFlagCall == call.ops \in FlagEffects
FlagOnEntry == GameState_get(TheOp.flag, call.gs_vars, call.world)
FlagNow == GameState_get(TheOp.flag, gs_vars, world)
\* F is a boolean path on entry: it resolves to a Bool
IsBooleanPath == FlagOnEntry.some /\ FlagOnEntry.v.t = "Bool"
\* the number of operations of the call's list that have returned Ok
Done == IF Running THEN stack[1].i - 1 ELSE IF result = RetOk THEN Len(call.ops) ELSE 0

\* C23: on a path F that holds a Bool (timer.paused with the GameTimer
\* present, var.x holding a Bool) SetFlag(F, v), ToggleFlag(F) returns Ok,
\* leaves F = v after the first operation and F = not v at the end;
\* ToggleFlag(F), ToggleFlag(F) returns Ok, leaves F inverted after the first
\* operation and the whole state as it was on entry at the end.
C23_SetThenToggle ==
    (IsFlagCall /\ IsBooleanPath) =>
        /\ result \in {Pending, RetOk}
        /\ Finished => Len(OpsRunAt(1)) = 2
        /\ IF TheOp.type = "SetFlag"
           THEN /\ Done = 1 => FlagNow = Some(VBool(TheOp.value))
                /\ Done = 2 => FlagNow = Some(VBool(~TheOp.value))
           ELSE /\ Done = 1 => FlagNow = Some(VBool(~FlagOnEntry.v.v))
                /\ Done = 2 => (FlagNow = FlagOnEntry /\ world = call.world
                                    /\ gs_vars = call.gs_vars)

\* SetFlag(timer.paused, true), ToggleFlag(timer.paused) has returned Ok on a
\* running timer and left it running
C23_Witness ==
    /\ IsFlagCall /\ Finished /\ result = RetOk
    /\ call.ops = <<OpSetFlag("timer.paused", TRUE), OpToggleFlag("timer.paused")>>
    /\ call.world.has_timer /\ ~call.world.paused
    /\ ~world.paused /\ ~world.timer_paused

\* ToggleFlag(var.x) twice has returned Ok and var.x is the Bool it was
C23_ToggleTwiceWitness ==
    /\ IsFlagCall /\ Finished /\ result = RetOk
    /\ call.ops = <<OpToggleFlag("var.x"), OpToggleFlag("var.x")>>
    /\ call.gs_vars["x"] = VBool(TRUE) /\ gs_vars["x"] = VBool(TRUE)

IsUnknownPathCall ==
    /\ Len(call.ops) = 1
    /\ IF TheOp.type = "SetFlag" THEN call.ops \in UnknownFlagEffects
       ELSE call.ops \in UnknownPathEffects
\* the path the single operation of the call names
PathOf(op) ==
    CASE op.type \in {"SetFlag", "ToggleFlag"} -> op.flag
      [] op.type = "IfCondition" -> op.condition.field
      [] OTHER -> op.target
\* nothing but the call's own bookkeeping differs from the entry state
StateAsOnEntry ==
    /\ world = call.world /\ gs_vars = call.gs_vars
    /\ collections = call.collections /\ ctx = call.ctx
    /\ event_listeners = call.event_listeners

\* C24 as stated: on a path outside the recognised set (for the
\* get-transform-set operations also an unbound variable) Add, Subtract,
\* Multiply, Set, SetFlag and ToggleFlag return InvalidPath carrying the path
\* and change nothing, a state-level comparison on such a path returns
\* InvalidPath, and none of them panics.
C24_UnknownPathIsInvalidPath ==
    IsUnknownPathCall =>
        /\ StateAsOnEntry
        /\ result # Panicked
        /\ Finished => result = RetErr(InvalidPath(PathOf(TheOp)))

\* What the code does: the same, except that Subtract negates its amount
\* before it looks at the path, so Subtract(P, i32::MIN) panics where
\* overflow is checked.
C24_UnlessNegationOverflows ==
    IsUnknownPathCall =>
        /\ StateAsOnEntry
        /\ Finished =>
                \/ result = RetErr(InvalidPath(PathOf(TheOp)))
                \/ /\ result = Panicked
                   /\ TheOp.type = "Subtract" /\ TheOp.amount = MinI32

\* Subtract("bogus.path", -2147483648) has panicked
C24_NegationPanicked ==
    /\ IsUnknownPathCall /\ Finished
    /\ TheOp = OpSubtract("bogus.path", MinI32)
    /\ result = Panicked

\* Subtract("bogus.path", -2147483648) has returned InvalidPath
C24_NegationWrapped ==
    /\ IsUnknownPathCall /\ Finished
    /\ TheOp = OpSubtract("bogus.path", MinI32)
    /\ result = RetErr(InvalidPath("bogus.path"))

IsNonNumberCall == call.ops \in NonNumberEffects
\* the target resolves on entry, to a value that is neither Int nor Float
TargetIsNonNumber == HeldOnEntry.some /\ ~IsNumber(HeldOnEntry.v)

\* C25 as stated: Add, Subtract or Multiply on a path that resolves to a
\* value that is not a number fails with InvalidValue and leaves the value
\* unchanged.
C25_NonNumberIsInvalidValue ==
    (IsNonNumberCall /\ TargetIsNonNumber /\ Finished) =>
        /\ result.status = "Err" /\ result.err.kind = "InvalidValue"
        /\ HeldNow = HeldOnEntry

\* What the code does: the operation fails with InvalidPath carrying the
\* target and changes nothing (Subtract of i32::MIN may panic instead).
C25_NonNumberIsInvalidPath ==
    (IsNonNumberCall /\ TargetIsNonNumber) =>
        /\ StateAsOnEntry
        /\ Finished =>
                \/ result = RetErr(InvalidPath(TheOp.target))
                \/ /\ result = Panicked
                   /\ TheOp.type = "Subtract" /\ TheOp.amount = MinI32

\* Add("timer.paused", 1) has returned InvalidPath("timer.paused") on a
\* World whose timer exists
C25_ReportedAsPath ==
    /\ IsNonNumberCall /\ Finished
    /\ TheOp = OpAdd("timer.paused", 1)
    /\ HeldOnEntry = Some(VBool(FALSE))
    /\ result = RetErr(InvalidPath("timer.paused"))

\* Multiply("var.x", 1.5) has returned InvalidPath("var.x") on a String
C25_StringReportedAsPath ==
    /\ IsNonNumberCall /\ Finished
    /\ TheOp = OpMultiply("var.x", 3)
    /\ HeldOnEntry = Some(VStr("seven"))
    /\ result = RetErr(InvalidPath("var.x"))
    /\ HeldNow = HeldOnEntry

\* ---- purity of the evaluators ----
\* the step leaves the game state, the collections, the context variables
\* and the listener registry as they are
LeavesStateAlone ==
    /\ world' = world /\ gs_vars' = gs_vars /\ collections' = collections
    /\ ctx' = ctx /\ event_listeners' = event_listeners

\* the step changes the collections only by dropping, from the collection at
\* path t, the items on which the item-level predicate q is false
OnlyDropsRejected(t, q) ==
    /\ DOMAIN collections' = DOMAIN collections
    /\ \A path \in DOMAIN collections :
            collections'[path] =
                IF path = t
                THEN SelectSeq(collections[path],
                               LAMBDA item : evaluate_item_predicate(q, item))
                ELSE collections[path]

\* C26: evaluating a predicate changes nothing.  The step in which an
\* IfCondition evaluates its condition (to true, to false or to an error)
\* leaves game state, collections, context and listeners as they are; the
\* step in which a Filter evaluates its predicate on every item leaves game
\* state, context and listeners as they are, and the collections differ only
\* by the items of the target on which the predicate is false, the items kept
\* being the same values in the same order.
C26_PredicatesArePure ==
    [][ /\ (AtOp /\ CurOp.type = "IfCondition") => LeavesStateAlone
        /\ (AtOp /\ CurOp.type = "Filter") =>
                /\ world' = world /\ gs_vars' = gs_vars
                /\ ctx' = ctx /\ event_listeners' = event_listeners
                /\ OnlyDropsRejected(CurOp.target, CurOp.predicate) ]_vars

\* IfCondition(score.current > "5") has failed with InvalidValue and the
\* state is the entry state
C26_Witness ==
    /\ IsStateCmpCall /\ Finished
    /\ TheOp.condition = PCmp("GreaterThan", "score.current", VStr("5"))
    /\ Len(PredsAt(1)) = 1 /\ ~PredsAt(1)[1].r.ok
    /\ StateAsOnEntry

\* Filter(value > 15) has dropped ItemA and kept ItemB as it was
C26_FilterWitness ==
    /\ IsItemCmpCall /\ Finished /\ result = RetOk
    /\ TheOp.predicate = PCmp("GreaterThan", "value", VInt(15))
    /\ OldItems = <<ItemA, ItemB>> /\ NewItems = <<ItemB>>
    /\ world = call.world /\ gs_vars = call.gs_vars /\ ctx = call.ctx

\* ---- inert operations ----
IsInertCall == call.ops \in InertEffects

\* C27: ScheduleOperation and GetVariable are inert.  The step that executes
\* one of them leaves game state, collections, context and listeners as they
\* are, returns Ok (the list goes on with the next operation) and opens no
\* frame for the nested operations, so nothing is kept that could run them
\* later.  A call made of such operations returns Ok with the state it
\* started from (GetVariable on an unbound name included), and the only
\* operations that ran are the ones of the call's own list.
C27_InertOperations ==
    /\ [][ (AtOp /\ CurOp.type \in {"ScheduleOperation", "GetVariable"}) =>
                /\ LeavesStateAlone
                /\ stack' = Advanced
                /\ result' = result ]_vars
    /\ [](IsInertCall =>
            /\ result \in {Pending, RetOk}
            /\ Len(stack) <= 1
            /\ \A i \in 1..Len(log) : log[i].ev = "op" => log[i].d = 1
            /\ (Returned /\ Len(call.ops) = 1) => StateAsOnEntry
            /\ (Returned /\ Len(call.ops) = 3) =>
                    /\ world = call.world /\ event_listeners = call.event_listeners
                    /\ ctx = Put(call.ctx, "x", VInt(7)))

\* ScheduleOperation(5, [Add("bogus.path", 1)]) has returned Ok and changed nothing
C27_Witness ==
    /\ IsInertCall /\ Returned /\ result = RetOk
    /\ TheOp = OpScheduleOperation(5, <<OpAdd("bogus.path", 1)>>)
    /\ StateAsOnEntry

\* GetVariable("nope") has returned Ok on a context without `nope`
C27_UnboundWitness ==
    /\ IsInertCall /\ Returned /\ result = RetOk
    /\ TheOp = OpGetVariable("nope")
    /\ "nope" \notin DOMAIN call.ctx
    /\ StateAsOnEntry

\* ---- equality and ordering across Int and Float ----
IsMixedStateCall == call.ops \in MixedEffects /\ TheOp.type = "IfCondition"
IsMixedItemCall ==
    call.ops \in MixedEffects /\ TheOp.type = "Filter" /\ "items" \in DOMAIN call.collections

\* a and b are the same number, one an Int and the other a Float
SameNumberOtherVariant(a, b) ==
    /\ IsNumber(a) /\ IsNumber(b) /\ a.t # b.t
    /\ AsF64(a) = AsF64(b)

\* what the claim says each predicate kind yields on such operands
YieldsOnEqualNumbers(op) == op \in {"NotEquals", "GreaterOrEqual", "LessOrEqual"}

\* C28: when the field holds Int n and the predicate value is the Float n
\* (or the reverse), Equals is false and NotEquals true, GreaterOrEqual and
\* LessOrEqual are true and GreaterThan and LessThan false.  State level: the
\* IfCondition returns Ok and runs its then list exactly for NotEquals,
\* GreaterOrEqual and LessOrEqual.  Item level: the Filter returns Ok and
\* keeps an item whose field is the same number in the other variant exactly
\* for those three kinds.
C28_EqualityIsVariantSensitive ==
    /\ (IsMixedStateCall /\ Finished) =>
            LET c == TheOp.condition
                left == resolve_value(c.field, call.ctx, call.gs_vars, call.world)
            IN  (left.ok /\ SameNumberOtherVariant(left.v, c.value)) =>
                    /\ result = RetOk
                    /\ PredsAt(1)[1].r = Ok(YieldsOnEqualNumbers(c.type))
                    /\ IF YieldsOnEqualNumbers(c.type) THEN ThenRan ELSE ElseRan
    /\ (IsMixedItemCall /\ Finished) =>
            LET q == TheOp.predicate IN
            /\ result = RetOk
            /\ IsSubseq(NewItems, OldItems)
            /\ \A x \in Range(OldItems) :
                    LET iv == get_field_value(x, q.field) IN
                    (iv.some /\ SameNumberOtherVariant(iv.v, q.value)) =>
                        Occurrences(NewItems, x) =
                            IF YieldsOnEqualNumbers(q.type)
                            THEN Occurrences(OldItems, x) ELSE 0

\* IfCondition(score.current == Float 10.0) has taken its else list with the
\* score at Int 10
C28_Witness ==
    /\ IsMixedStateCall /\ Finished /\ result = RetOk
    /\ TheOp.condition = PEquals("score.current", VFloat(10 * FloatDen))
    /\ call.world.current = 10
    /\ ElseRan

\* Filter(value >= Int 10) has kept the items whose value is Float 10.0, and
\* Filter(value == Int 10) has dropped them
C28_ItemWitness ==
    /\ IsMixedItemCall /\ Finished /\ result = RetOk
    /\ OldItems = <<ItemF, ItemA, ItemF>>
    /\ \/ TheOp.predicate = PCmp("GreaterOrEqual", "value", VInt(10)) /\ NewItems = OldItems
       \/ TheOp.predicate = PEquals("value", VInt(10)) /\ NewItems = <<ItemA>>

\* ---- a failure inside a body ----
AbortShapes == {<<k>> : k \in BodyKinds} \cup (BodyKinds \X BodyKinds)
Shape(ks, bad) ==
    IF Len(ks) = 1 THEN AbortOne(ks[1], bad) ELSE AbortTwo(ks[1], ks[2], bad)
Has(ks, kind) == \E j \in 1..Len(ks) : ks[j] = kind

\* the registry after the registrations that precede the failure
RegisteredBefore(ks, bad) ==
    LET inner == IF Len(ks) = 1 THEN FailingBody(bad)
                 ELSE Around(ks[2], FailingBody(bad), "bang")
        outer == IF ks[1] = "listener"
                 THEN Put(EmptyMap, "boom", <<inner, <<MarkAdd>>>>) ELSE EmptyMap
    IN  IF Len(ks) = 2 /\ ks[2] = "listener"
        THEN Put(outer, "bang", <<FailingBody(bad), <<MarkAdd>>>>) ELSE outer

BodiesStarted == SelectSeq(log, LAMBDA e : e.ev = "body")

\* C29: an operation that fails inside a then or else branch, a While body, a
\* ForEach body or a listener body, alone or with one such body inside
\* another, in a call that started with no listener registered, makes
\* execute_effect return that operation's error; the operation
\* after it in its body, the further iterations, the second listener of the
\* event and the operations after the enclosing operation in every list
\* around it are not run (each body was started once, and the score holds one
\* mark per list the failure was reached through); what ran before the
\* failure (those marks, the listener registrations, the loop variables of
\* the first iteration) is still in place.
C29_FailureAbortsAllPending ==
    \A ks \in AbortShapes, bad \in BodyFailures :
        (Finished /\ call.ops = Shape(ks, bad) /\ call.event_listeners = EmptyMap) =>
            /\ result = RetErr(ErrorOf(bad))
            /\ world = [call.world EXCEPT !.current = @ + 1 + Len(ks)]
            /\ Len(BodiesStarted) = Len(ks)
            /\ Len(OpsRunAt(1)) = IF ks[1] = "listener" THEN 4 ELSE 2
            /\ gs_vars = call.gs_vars
            /\ collections = call.collections
            /\ ctx = IF Has(ks, "foreach")
                     THEN Put(Put(call.ctx, "item", call.collections["items"][1]),
                              "index", VInt(0))
                     ELSE call.ctx
            /\ event_listeners = RegisteredBefore(ks, bad)

\* a failure in the first listener of an event emitted in the first of two
\* ForEach iterations
C29_Witness ==
    /\ Finished
    /\ call.ops = AbortTwo("foreach", "listener", OpAdd("bogus.path", 1))
    /\ Len(call.collections["items"]) = 2
    /\ result = RetErr(InvalidPath("bogus.path"))
    /\ world.current = call.world.current + 3
    /\ Len(event_listeners["bang"]) = 2

\* a While that fails on its bound inside the else branch inside a While body
C29_LoopWitness ==
    /\ Finished
    /\ call.ops = AbortTwo("while", "else", OpWhile(PAnd(<<>>), <<>>, Some(0)))
    /\ result = RetErr(MaxIterationsReached)
    /\ world.current = call.world.current + 3

\* the same shapes with a body that does not fail run everything that was
\* pending
C29_CompletingRunsAll ==
    \A k \in BodyKinds \ {"while"} :
        (Finished /\ call.ops = Around(k, <<MarkAdd>>, "boom")
                  /\ call.event_listeners = EmptyMap) =>
            /\ result = RetOk
            /\ world.current = call.world.current + 2 +
                    (CASE k = "foreach" -> Len(call.collections["items"])
                       [] k = "listener" -> 2
                       [] OTHER -> 1)

\* ---- the order of predicate, bound and body in a While ----
PredsEvaluated == SelectSeq(log, LAMBDA e : e.ev = "pred")

\* every body start so far directly follows an evaluation that gave true
BodyFollowsTruePredicate ==
    \A j \in 1..Len(log) :
        log[j].ev = "body" =>
            j > 1 /\ log[j - 1].ev = "pred" /\ log[j - 1].r.ok /\ log[j - 1].r.v

\* the number of evaluations for which ScoreBelow(n) is true in this call
TrueEvaluations(n) == Max(0, BaseWorld.current + n - call.world.current)

\* C30: in a While every body execution directly follows an evaluation of the
\* predicate that gave true, and the bound counts only after that: a loop
\* whose predicate is true for exactly n evaluations, with a body that does
\* not fail and max_iterations = m (100 when omitted), returns Ok after n
\* bodies and n + 1 evaluations when n <= m (n = m included), and fails with
\* MaxIterationsReached after m bodies and m + 1 evaluations when n > m; with
\* m = 0 that is Ok for n = 0 and MaxIterationsReached after zero bodies for
\* n > 0; a predicate that cannot be evaluated fails with its own error
\* after one evaluation and zero bodies, whatever the bound is.
C30_PredicateBeforeBound ==
    /\ BodyFollowsTruePredicate
    /\ \A t \in TrueFor, m \in MaxInputs :
        (Finished /\ call.ops = CountedLoop(t, m)) =>
            LET max == GivenMax(call.ops[1])
                n == TrueEvaluations(t)
            IN
            IF n <= max
            THEN /\ result = RetOk
                 /\ Len(BodiesStarted) = n
                 /\ Len(PredsEvaluated) = n + 1
                 /\ world.current = call.world.current + n
                 /\ "x" \in DOMAIN ctx
            ELSE /\ result = RetErr(MaxIterationsReached)
                 /\ Len(BodiesStarted) = max
                 /\ Len(PredsEvaluated) = max + 1
                 /\ world.current = call.world.current + max
                 /\ ctx = call.ctx
    /\ \A m \in MaxInputs :
        (Finished /\ call.ops = BrokenLoop(m)) =>
            /\ result.status = "Err" /\ result.err.kind # "MaxIterationsReached"
            /\ Len(BodiesStarted) = 0
            /\ Len(PredsEvaluated) = 1
            /\ world = call.world

\* a loop whose predicate turned false after exactly max_iterations bodies
C30_Witness ==
    /\ Finished /\ call.ops = CountedLoop(MaxIter, Some(MaxIter))
    /\ result = RetOk
    /\ Len(BodiesStarted) = MaxIter
    /\ Len(PredsEvaluated) = MaxIter + 1

\* max_iterations = 0 with a true predicate
C30_ZeroBoundTrueWitness ==
    /\ Finished /\ call.ops = CountedLoop(1, Some(0))
    /\ result = RetErr(MaxIterationsReached)
    /\ Len(BodiesStarted) = 0
    /\ Len(PredsEvaluated) = 1

\* max_iterations = 0 with a false predicate
C30_ZeroBoundFalseWitness ==
    /\ Finished /\ call.ops = CountedLoop(0, Some(0))
    /\ result = RetOk
    /\ Len(BodiesStarted) = 0
    /\ Len(PredsEvaluated) = 1

\* ---- And and Or stop at the deciding child ----
IsShortCircuitCall == call.ops \in ShortCircuitEffects

\* the outcome of every child of the call's And or Or in the entry state
ChildOutcomes ==
    LET l == TheOp.condition.predicates IN
    [j \in 1..Len(l) |-> evaluate_predicate(l[j], call.ctx, call.gs_vars, call.world)]

\* the children that end the loop: a failure, a false under And, a true under Or
Stops(rs, kind) == {j \in 1..Len(rs) : ~rs[j].ok \/ rs[j].v = (kind = "Or")}

\* the outcome of the list: that of its first stopping child, or And's true
\* and Or's false when no child stops
ListOutcome(rs, kind) ==
    LET stops == Stops(rs, kind) IN
    IF stops = {} THEN Ok(kind = "And")
    ELSE LET f == CHOOSE j \in stops : \A k \in stops : j <= k IN
         IF rs[f].ok THEN Ok(kind = "Or") ELSE rs[f]

\* C31: an IfCondition on an And (an Or) of two or three children takes the
\* outcome of the first child, from the left, that fails or is false (true):
\* a failing child after a false (true) one does not make the call fail, the
\* else (then) list runs; the same failing child before it makes the call
\* return that child's error with nothing run.
C31_ShortCircuit ==
    (IsShortCircuitCall /\ Finished) =>
        DecidedAs(ListOutcome(ChildOutcomes, TheOp.condition.type))

\* And(false, unknown path) ran the else list
C31_Witness ==
    /\ IsShortCircuitCall /\ Finished
    /\ TheOp.condition =
            PAnd(<<PEquals("score.current", VInt(999)), PCmp("LessThan", "bogus.path", VInt(5))>>)
    /\ result = RetOk /\ ElseRan

\* And(unknown path, false) failed with InvalidPath
C31_SwappedWitness ==
    /\ IsShortCircuitCall /\ Finished
    /\ TheOp.condition =
            PAnd(<<PCmp("LessThan", "bogus.path", VInt(5)), PEquals("score.current", VInt(999))>>)
    /\ result = RetErr(InvalidPath("bogus.path"))
    /\ world = call.world /\ ctx = call.ctx

\* Or(true, comparison of a Bool) ran the then list
C31_OrWitness ==
    /\ IsShortCircuitCall /\ Finished
    /\ TheOp.condition =
            POr(<<PEquals("score.current", VInt(10)), PCmp("LessThan", "timer.paused", VInt(5))>>)
    /\ call.world.current = 10
    /\ result = RetOk /\ ThenRan

\* Or(comparison of a Bool, true) failed with InvalidValue
C31_OrSwappedWitness ==
    /\ IsShortCircuitCall /\ Finished
    /\ TheOp.condition =
            POr(<<PCmp("LessThan", "timer.paused", VInt(5)), PEquals("score.current", VInt(10))>>)
    /\ result = RetErr(InvalidValue("Not a number"))

\* ---- paths with a getter and no setter ----
IsReadOnlyCall ==
    /\ Len(call.ops) = 1
    /\ IF TheOp.type = "SetFlag" THEN call.ops \in ReadOnlyFlagEffects
       ELSE call.ops \in ReadOnlyEffects
\* the path reads a value on entry
ReadableOnEntry == GameState_get(PathOf(TheOp), call.gs_vars, call.world).some

\* C32 as stated: Set, Add, Subtract, Multiply, SetFlag and ToggleFlag on
\* timer.elapsed, timer.percent_remaining, cards.slots.max and
\* cards.slots.occupied return InvalidPath carrying the path, do not panic,
\* and leave the world, the variables, the collections, the context and the
\* listeners as they were on entry.
C32_ReadOnlyIsInvalidPath ==
    IsReadOnlyCall =>
        /\ StateAsOnEntry
        /\ result # Panicked
        /\ Finished => result = RetErr(InvalidPath(PathOf(TheOp)))

\* What the code does: the same, except that Add and Subtract compute the
\* new value before set rejects the path, so they panic where overflow is
\* checked and the sum or the negation leaves the i32 range.
C32_UnlessArithmeticOverflows ==
    IsReadOnlyCall =>
        /\ StateAsOnEntry
        /\ Finished =>
                \/ result = RetErr(InvalidPath(PathOf(TheOp)))
                \/ /\ result = Panicked
                   /\ \/ /\ TheOp.type = "Add"
                         /\ add_overflows(TheOp.target, TheOp.amount,
                                          call.gs_vars, call.world)
                      \/ /\ TheOp.type = "Subtract"
                         /\ subtract_overflows(TheOp.target, TheOp.amount,
                                               call.gs_vars, call.world)

\* Add("cards.slots.max", 2147483647) has panicked
C32_AddPanicked ==
    /\ IsReadOnlyCall /\ Finished
    /\ TheOp = OpAdd("cards.slots.max", MaxI32)
    /\ result = Panicked

\* Add("cards.slots.max", 1) has returned InvalidPath and the path still reads 10
C32_AddRejected ==
    /\ IsReadOnlyCall /\ Finished /\ ReadableOnEntry
    /\ TheOp = OpAdd("cards.slots.max", 1)
    /\ result = RetErr(InvalidPath("cards.slots.max"))
    /\ GameState_get("cards.slots.max", gs_vars, world) = Some(VInt(DefaultMaxSlots))

\* ---- `$name` in a state-level predicate ----
IsVarRefCall == call.ops \in VarRefEffects
\* the predicate of the call's IfCondition, its last operation
VarRefPredicate == call.ops[Len(call.ops)].condition
\* the operations before the IfCondition
BinderOf(ops) == SubSeq(ops, 1, Len(ops) - 1)

\* what a name holds after the binders: the value of the last binder of the
\* given type, or what the entry state held
HeldAfter(ops, type, entry) ==
    LET b == BinderOf(ops) IN
    IF Len(b) > 0 /\ b[Len(b)].type = type THEN Some(b[Len(b)].value)
    ELSE IF "counter" \in DOMAIN entry THEN Some(entry["counter"]) ELSE None

\* the context variable counter, and the GameState variable var.counter
ContextCounter == HeldAfter(call.ops, "SetVariable", call.ctx)
StateCounter == HeldAfter(call.ops, "Set", call.gs_vars)

\* the outcome of a comparison whose field resolved to `current`
ComparedWith(current, p) ==
    CASE p.type = "Equals" -> Ok(current = p.value)
      [] p.type = "NotEquals" -> Ok(current # p.value)
      [] OTHER -> Executor_compare_values(current, p.value, p.type)

StartedBody(role) == \E j \in 1..Len(log) : log[j].ev = "body" /\ log[j].role = role

\* the call ended as an IfCondition whose condition had the outcome r
BranchTaken(r) ==
    IF ~r.ok THEN result = RetErr(r.err) /\ ~StartedBody("then") /\ ~StartedBody("else")
    ELSE /\ result = RetOk
         /\ StartedBody("then") = r.v
         /\ StartedBody("else") = ~r.v

\* C33: a predicate on `$counter` is decided on the value the context
\* variable counter holds (the last SetVariable of the same execution, or the
\* caller's binding), whatever var.counter holds, and fails with
\* InvalidPath("$counter") when the context variable is unbound, also when
\* var.counter holds a value; a predicate on var.counter is decided on the
\* GameState variable and fails with InvalidPath("var.counter") when only the
\* context variable is bound.
C33_DollarReadsContext ==
    (IsVarRefCall /\ Finished) =>
        LET p == VarRefPredicate
            held == IF p.field = "$counter" THEN ContextCounter ELSE StateCounter
        IN  IF held.some THEN BranchTaken(ComparedWith(held.v, p))
            ELSE BranchTaken(Err(InvalidPath(p.field)))

\* SetVariable(counter, 5) then Equals($counter, 5): the then list ran
C33_Witness ==
    /\ IsVarRefCall /\ Finished
    /\ call.ops = <<OpSetVariable("counter", VInt(5))>> \o Decide(PEquals("$counter", VInt(5)))
    /\ "counter" \notin DOMAIN call.ctx
    /\ result = RetOk /\ StartedBody("then")

\* Set(var.counter, 5) then Equals($counter, 5): InvalidPath
C33_UnboundWitness ==
    /\ IsVarRefCall /\ Finished
    /\ call.ops = <<OpSet("var.counter", VInt(5))>> \o Decide(PEquals("$counter", VInt(5)))
    /\ gs_vars["counter"] = VInt(5)
    /\ result = RetErr(InvalidPath("$counter"))

\* ---- the handler chain covers the operation type ----
\* the handlers that have an arm for the variant t
ClaimedBy(t) == {k \in 1..Len(HandlerChain) : t \in ClaimsOf(HandlerChain[k])}
Skipped == {j \in 1..Len(log) : log[j].ev = "skip"}
TypesDispatched == {log[j].type : j \in {k \in 1..Len(log) : log[k].ev = "op"}}

\* C34: each of the 18 variants of EffectOperation has an arm in exactly one
\* of the six handlers and no handler has an arm for anything else; every
\* operation the executor reaches, at the top level or inside a branch, a
\* loop or a listener, is one of those variants and is answered by a
\* handler, so no operation is skipped by the final Ok(()).
C34_HandlersCoverOperations ==
    /\ Cardinality(OperationTypes) = 18
    /\ \A t \in OperationTypes : Cardinality(ClaimedBy(t)) = 1
    /\ UNION {ClaimsOf(HandlerChain[k]) : k \in 1..Len(HandlerChain)} = OperationTypes
    /\ AtOp => /\ CurOp.type \in OperationTypes
               /\ execute_operation_handler(CurOp) # "fall_through"
    /\ Skipped = {}

\* an effect with all 18 variants has returned Ok, each variant dispatched
C34_Witness ==
    /\ Finished /\ result = RetOk
    /\ Len(call.ops) = 18 /\ Len(OpsRunAt(1)) = 18
    /\ TypesDispatched = OperationTypes

\* ---- a dispatch runs the listeners it found when it started ----
IsRegrowCall == call.ops \in RegrowEffects /\ "grow" \notin DOMAIN call.event_listeners
IsTopEmit(e) == e.ev = "op" /\ e.d = 1 /\ e.type = "EmitEvent"
\* the top-level EmitEvent operations dispatched among the first p log entries
EmitsStarted(p) == Cardinality({q \in 1..p : IsTopEmit(log[q])})
\* the listener bodies started by the j-th top-level EmitEvent of the call
BodiesOfEmit(j) ==
    Cardinality({p \in 1..Len(log) :
                    /\ log[p].ev = "body" /\ log[p].d = 2 /\ log[p].role = "listener"
                    /\ EmitsStarted(p) = j})
Pow2(n) == IF n = 0 THEN 1 ELSE IF n = 1 THEN 2 ELSE IF n = 2 THEN 4 ELSE 8

\* C35: EmitEvent(E) dispatches to the listener list as it stood when the emit
\* started.  The frame of an emit holds the registry's list of that moment and
\* no OnEvent changes the frame of an emit in progress, while the body it
\* registers is in the registry after the step.  With a listener of "grow"
\* that registers a copy of itself each time it runs (nested RegrowDepth
\* deep), registered on a registry without "grow": the j-th successive emit
\* starts 2^(j-1) bodies, never more while it is in progress, and after k
\* emits the registry holds 2^k listeners and the score rose by 2^k - 1.
C35_EmitRunsSnapshot ==
    /\ [][ (AtOp /\ CurOp.type = "EmitEvent" /\ CurOp.event \in DOMAIN event_listeners) =>
                /\ Len(stack') = Len(stack) + 1
                /\ stack'[Len(stack')] = EmitFrame(event_listeners[CurOp.event]) ]_vars
    /\ [][ (AtOp /\ CurOp.type = "OnEvent") =>
                /\ \A d \in 1..Len(stack) : stack[d].kind = "emit" => stack'[d] = stack[d]
                /\ ListenersOf(event_listeners', CurOp.event) =
                        Append(ListenersOf(event_listeners, CurOp.event), CurOp.operations) ]_vars
    /\ []( IsRegrowCall =>
                LET n == EmitsStarted(Len(log)) IN
                /\ \A j \in 1..n :
                        /\ BodiesOfEmit(j) <= Pow2(j - 1)
                        /\ (j < n \/ Finished) => BodiesOfEmit(j) = Pow2(j - 1)
                /\ Returned =>
                        /\ result = RetOk
                        /\ n = Len(call.ops) - 1
                        /\ Len(ListenersOf(event_listeners, "grow")) = Pow2(n)
                        /\ world.current = call.world.current + Pow2(n) - 1 )

\* the third emit is in progress: it runs its fourth body, the registry
\* already holds more listeners than the four the emit was started with
C35_Witness ==
    /\ IsRegrowCall /\ Running
    /\ EmitsStarted(Len(log)) = 3
    /\ BodiesOfEmit(1) = 1 /\ BodiesOfEmit(2) = 2 /\ BodiesOfEmit(3) = 4
    /\ Len(stack) = 3 /\ stack[2].kind = "emit" /\ Len(stack[2].listeners) = 4
    /\ Len(ListenersOf(event_listeners, "grow")) > 4

\* a listener registered during the first emit was run by the second
C35_NextEmitWitness ==
    /\ IsRegrowCall /\ Returned
    /\ Len(call.ops) = 3
    /\ BodiesOfEmit(1) = 1 /\ BodiesOfEmit(2) = 2
    /\ Len(ListenersOf(event_listeners, "grow")) = 4

\* ---- Equals and NotEquals on items ----
IsItemEqCall == call.ops \in ItemEqEffects /\ "items" \in DOMAIN call.collections

RECURSIVE Reaches(_, _, _)
\* every part of the dotted path from i on names a key of an Object
Reaches(v, parts, i) ==
    \/ i > Len(parts)
    \/ /\ v.t = "Object"
       /\ parts[i] \in DOMAIN v.v
       /\ Reaches(v.v[parts[i]], parts, i + 1)
\* the item is no Object, or the path is missing or passes through a non-Object
Unreachable(item, f) == item.t # "Object" \/ ~Reaches(item, Split(f), 1)

Holds(type, f, v, item) == evaluate_item_predicate(PCmp(type, f, v), item)

\* C36: at the item level NotEquals(f, v) is the negation of Equals(f, v) on
\* every item.  On an item that is no Object, or where the path f is missing
\* or passes through a non-Object, Equals is false and NotEquals is true,
\* while GreaterThan and LessOrEqual are both false.  So Filter with
\* NotEquals(f, v) keeps exactly the items Filter with Equals(f, v) drops,
\* and Filter with GreaterThan or LessOrEqual drops every such item.
C36_NotEqualsNegatesEquals ==
    (IsItemEqCall /\ Finished) =>
        LET q == TheOp.predicate IN
        /\ result = RetOk
        /\ \A i \in 1..Len(OldItems) :
                LET item == OldItems[i] IN
                /\ Holds("NotEquals", q.field, q.value, item)
                        = ~Holds("Equals", q.field, q.value, item)
                /\ Unreachable(item, q.field) =>
                        /\ ~Holds("Equals", q.field, q.value, item)
                        /\ Holds("NotEquals", q.field, q.value, item)
                        /\ ~Holds("GreaterThan", q.field, q.value, item)
                        /\ ~Holds("LessOrEqual", q.field, q.value, item)
        /\ q.type = "NotEquals" =>
                NewItems = SelectSeq(OldItems,
                                     LAMBDA item : ~Holds("Equals", q.field, q.value, item))
        /\ \A i \in 1..Len(NewItems) :
                Unreachable(NewItems[i], q.field) => q.type = "NotEquals"
        /\ q.type = "NotEquals" =>
                \A i \in 1..Len(OldItems) :
                    Unreachable(OldItems[i], q.field) =>
                        \E j \in 1..Len(NewItems) : NewItems[j] = OldItems[i]

\* Filter with NotEquals on a path through the Int field `value` kept all
\* three items, the Int item among them
C36_Witness ==
    /\ IsItemEqCall /\ Finished
    /\ TheOp.predicate = PNotEquals("value.x", VNull)
    /\ OldItems = <<ItemT, ItemC, ItemB>>
    /\ NewItems = OldItems

\* Filter with LessOrEqual on a missing field dropped every item
C36_OrderingWitness ==
    /\ IsItemEqCall /\ Finished
    /\ TheOp.predicate = PCmp("LessOrEqual", "missing", VInt(10))
    /\ OldItems = <<ItemT, ItemC, ItemB>>
    /\ NewItems = <<>>

\* ---- the two accessors of GameState's variables ----
LastOwnerStep(ev) == Len(log') = Len(log) + 1 /\ log'[Len(log')].d = 0 /\ log'[Len(log')].ev = ev
\* what an effect reads at the path var.<name>
ReadAtPath(name, gsv) == GameState_get(VarPath(name), gsv, world)
IsPathWriteCall == call.ops \in PathWriteEffects
IsNestedPathCall == call.ops \in NestedPathEffects
NoOwnerStep == \A j \in 1..Len(log) : log[j].d # 0

\* C37: the two accessors of GameState's variables never see each other's
\* entries.  set_variable(name, v) makes get_variable(name) return v and
\* leaves what every path var.<n> reads as it was; Set and Add on a path
\* var.<n> store what the path then reads and leave what get_variable
\* returns for every name as it was (a path with one more `var.` in front is
\* no variable path at all); clear_variables leaves nothing to read either
\* way.
C37_AccessorsAreDisjoint ==
    /\ [][ LastOwnerStep("set_variable") =>
                LET e == log'[Len(log')] IN
                /\ GameState_get_variable(e.name, gs_vars') = Some(e.value)
                /\ \A n \in VarNames : ReadAtPath(n, gs_vars') = ReadAtPath(n, gs_vars) ]_vars
    /\ [][ (AtOp /\ CurOp.type \in {"Set", "Add"}) =>
                \A n \in VarNames :
                    GameState_get_variable(n, gs_vars') = GameState_get_variable(n, gs_vars) ]_vars
    /\ [][ LastOwnerStep("clear_variables") =>
                \A n \in VarNames :
                    /\ GameState_get_variable(n, gs_vars') = None
                    /\ ReadAtPath(n, gs_vars') = None ]_vars
    /\ []( (IsPathWriteCall /\ Finished /\ NoOwnerStep /\ TheOp.type = "Set") =>
                /\ result = RetOk
                /\ GameState_get(TheOp.target, gs_vars, world) = Some(TheOp.value)
                /\ \A n \in VarNames :
                        GameState_get_variable(n, gs_vars)
                            = GameState_get_variable(n, call.gs_vars) )
    /\ []( (IsNestedPathCall /\ Finished /\ NoOwnerStep) =>
                /\ result = RetErr(InvalidPath("var.var.x"))
                /\ gs_vars = call.gs_vars )

\* `x` holds 1 for get_variable and 2 for the path var.x: Set(var.x, 2) ran
\* after set_variable("x", 1) and neither replaced the other's entry
C37_Witness ==
    /\ IsPathWriteCall /\ Finished /\ NoOwnerStep
    /\ TheOp = OpSet("var.x", VInt(2))
    /\ GameState_get_variable("x", call.gs_vars) = Some(VInt(1))
    /\ GameState_get_variable("x", gs_vars) = Some(VInt(1))
    /\ ReadAtPath("x", gs_vars) = Some(VInt(2))

\* clear_variables erased an entry of each accessor
C37_ClearedWitness ==
    /\ IsPathWriteCall /\ Finished
    /\ Len(log) >= 2
    /\ log[Len(log)].ev = "clear_variables"
    /\ log[Len(log) - 1].ev = "set_variable"
    /\ ReadAtPath("x", call.gs_vars) = None
    /\ TheOp = OpSet("var.x", VInt(2)) /\ result = RetOk
    /\ gs_vars = EmptyMap

\* ---- arithmetic on timer.remaining ----
\* every operation of the call is arithmetic on timer.remaining, with amounts
\* away from the ends of the i32 range
IsTimerCall ==
    /\ calls > 0 /\ call.world.has_timer
    /\ \A j \in 1..Len(call.ops) :
            /\ call.ops[j].type \in {"Set", "Add", "Subtract", "Multiply"}
            /\ call.ops[j].target = "timer.remaining"
    /\ ~UsesExtremeAmount(call.ops)
SecondsAt(path, w) == GameState_get(path, gs_vars, w).v.v
\* the number an operation on timer.remaining computes from the seconds held
Computed(op, held) ==
    CASE op.type = "Set" -> op.value.v
      [] op.type = "Add" -> held + op.amount
      [] op.type = "Subtract" -> held - op.amount
      [] op.type = "Multiply" -> TruncDiv(held * op.factor, FloatDen)

\* C38: during and after any sequence of Set, Add, Subtract and Multiply on
\* timer.remaining the value read at timer.remaining is never negative and
\* the value read at timer.elapsed is the one read before the sequence; of
\* the whole state only the timer's total duration has changed.  Each
\* operation that computes a result below 0 leaves 0 to read, and one that
\* computes n >= 0 leaves n.
C38_RemainingNeverNegative ==
    /\ []( IsTimerCall =>
                /\ SecondsAt("timer.remaining", world) >= 0
                /\ SecondsAt("timer.elapsed", world) = SecondsAt("timer.elapsed", call.world)
                /\ world = [call.world EXCEPT !.duration = world.duration]
                /\ gs_vars = call.gs_vars /\ collections = call.collections
                /\ ctx = call.ctx )
    /\ [][ (/\ IsTimerCall /\ AtOp
            /\ CurOp.type = "Set" => CurOp.value.t = "Int") =>
                LET n == Computed(CurOp, SecondsAt("timer.remaining", world)) IN
                SecondsAt("timer.remaining", world') = IF n < 0 THEN 0 ELSE n ]_vars

\* Set(-4), Add(4), Multiply(-1.0), Subtract(-5) has returned: the timer with
\* half a second elapsed reads 5 s remaining, 0 s elapsed as before
C38_Witness ==
    /\ IsTimerCall /\ Finished /\ result = RetOk
    /\ Len(call.ops) = 4
    /\ call.world.elapsed > 0
    /\ SecondsAt("timer.remaining", world) = 5
    /\ world.duration # call.world.duration
    /\ world.elapsed = call.world.elapsed

\* a subtraction below zero left 0 to read
C38_ClampedWitness ==
    /\ IsTimerCall /\ Finished /\ result = RetOk
    /\ call.ops = <<OpSet("timer.remaining", VInt(0)), OpSubtract("timer.remaining", 4)>>
    /\ SecondsAt("timer.remaining", world) = 0

\* ---- the two executors ----
\* the conditions of the operation trees of AgreementCatalogue
AgreementConditions ==
    {PAnd(<<>>), PEquals("$x", VInt(8)), PCmp("LessThan", "$x", VInt(9)),
     PEquals("$event.points", VInt(3)), PCmp("LessThan", "score.current", VInt(12)),
     PAnd(<<PEquals("$x", VInt(8)), PCmp("LessThan", "score.current", VInt(12))>>)}

\* C39: the single-match executor of effect_executor.rs and the handler-chain
\* executor of effect_executor/mod.rs agree.  In every state either of them
\* can reach, a step is a step of execute_operation of the one exactly if it
\* is a step of execute_operation of the other, and likewise for a turn of
\* the While loop: the same result, game state, collections, context
\* variables and listener registry follow.  Both evaluators give the same
\* outcome, boolean or error, for every condition in every such state.
C39_ExecutorsAgree ==
    /\ [][ExecuteOperation <=> SingleMatch_execute_operation]_vars
    /\ [][WhileTest <=> SingleMatch_WhileTest]_vars
    /\ [](\A p \in AgreementConditions :
            evaluate_predicate(p, ctx, gs_vars, world)
                = SingleMatch_evaluate_predicate(p, ctx, gs_vars, world))

\* listeners, event data and a `$` reference: the effect that registers two
\* listeners and emits three times has returned Ok, the branch on
\* $event.points taken
C39_Witness ==
    /\ Finished /\ result = RetOk
    /\ Len(call.ops) = 6 /\ call.ops[1].type = "OnEvent"
    /\ call.event_listeners = EmptyMap
    /\ Len(event_listeners["scored"]) = 4
    /\ "event.points" \in DOMAIN ctx
    /\ world.current = call.world.current + 4

\* the While on the bound variable $x ran into its bound
C39_LoopWitness ==
    /\ Finished /\ result = RetErr(MaxIterationsReached)
    /\ Len(call.ops) = 2 /\ call.ops[1].type = "While"
    /\ "x" \in DOMAIN call.ctx
    /\ world.current = call.world.current + 2

\* ---- collections side by side ----
IsCollectionOp(op) == op.type \in {"Filter", "Remove", "Append", "Insert"}
IsPathCall == call.ops \in PathEffects

\* C40: a collection is addressed by its exact path string.  A Filter,
\* Remove, Append or Insert step on the path A leaves every other path as it
\* was: it exists after the step exactly if it existed before, with the same
\* items, and no path other than A comes into existence; "items" and "Items"
\* are two such paths.  No such step changes a GameState value (the world's
\* timer, score and cards, and the variables).  After a call whose
\* operations all address "Items", the collection "items" is as on entry.
C40_PathsIndependent ==
    /\ [][ (AtOp /\ IsCollectionOp(CurOp)) =>
                /\ \A B \in PathNames \ {CurOp.target} :
                        /\ (B \in DOMAIN collections') = (B \in DOMAIN collections)
                        /\ B \in DOMAIN collections => collections'[B] = collections[B]
                /\ DOMAIN collections' \subseteq DOMAIN collections \cup {CurOp.target}
                /\ world' = world
                /\ gs_vars' = gs_vars ]_vars
    /\ []( (IsPathCall /\ \A j \in 1..Len(call.ops) : call.ops[j].target = "Items") =>
                /\ ("items" \in DOMAIN collections) = ("items" \in DOMAIN call.collections)
                /\ "items" \in DOMAIN collections =>
                        collections["items"] = call.collections["items"] )
    /\ []( IsPathCall => world = call.world /\ gs_vars = call.gs_vars )

\* Append on "Items" created that collection next to "items", which still
\* holds its two items
C40_Witness ==
    /\ IsPathCall /\ Finished /\ result = RetOk
    /\ call.ops = <<OpAppend("Items", ItemNew)>>
    /\ DOMAIN call.collections = {"items"}
    /\ DOMAIN collections = {"items", "Items"}
    /\ collections["Items"] = <<ItemNew>>
    /\ collections["items"] = <<ItemA, ItemB>>

\* Filter on "items" and Remove on "Items" each changed their own collection
C40_BothChangedWitness ==
    /\ IsPathCall /\ Finished /\ result = RetOk
    /\ Len(call.ops) = 2
    /\ call.ops[1].type = "Filter" /\ call.ops[1].target = "items"
    /\ call.ops[2].type = "Remove" /\ call.ops[2].target = "Items"
    /\ DOMAIN call.collections = PathNames
    /\ collections["items"] = <<ItemA>>
    /\ Len(collections["Items"]) = 1
    /\ collections["discard"] = call.collections["discard"]

====
